---- MODULE Spec2Model ----
(***************************************************************************)
(* The bulk XML-to-CSV pipeline of cima-rs: the Archive Fetcher            *)
(* (src/downloader.rs), the Parallel Orchestrator (process_csv in          *)
(* src/bin/nomenclator.rs, main in src/bin/nomenclator_csv.rs) and the     *)
(* parsers it drives (src/parser.rs), as a state machine.                  *)
(***************************************************************************)
EXTENDS Naturals, Integers, Sequences, FiniteSets, Bags, TLC

(***************************************************************************)
(* Bounds of the model.                                                    *)
(***************************************************************************)
\* largest concurrency level (--concurrency / number of cores) explored
MaxConcurrency == 2
\* the one catalog file that differs from the others is among the first MaxVaried
MaxVaried == 1
\* direct calls of download_and_extract_nomenclator explored in FetchSpec
MaxCalls == 2

\* the table with one output path given to two catalogs
mapping_Shared ==
  << [xml |-> "DICCIONARIO_ATC.xml", csv |-> "atc.csv"],
     [xml |-> "DICCIONARIO_DCP.xml", csv |-> "dcp.csv"],
     [xml |-> "DICCIONARIO_DCPF.xml", csv |-> "dcp.csv"],
     [xml |-> "DICCIONARIO_DCSA.xml", csv |-> "dcsa.csv"],
     [xml |-> "DICCIONARIO_ENVASES.xml", csv |-> "envases.csv"],
     [xml |-> "DICCIONARIO_EXCIPIENTES_DECL_OBLIGATORIA.xml", csv |-> "excipientes.csv"],
     [xml |-> "DICCIONARIO_FORMA_FARMACEUTICA.xml", csv |-> "forma_farmaceutica.csv"],
     [xml |-> "DICCIONARIO_FORMA_FARMACEUTICA_SIMPLIFICADAS.xml",
      csv |-> "forma_farmaceutica_simplificada.csv"],
     [xml |-> "DICCIONARIO_LABORATORIOS.xml", csv |-> "laboratorios.csv"],
     [xml |-> "DICCIONARIO_PRINCIPIOS_ACTIVOS.xml", csv |-> "principios_activos.csv"],
     [xml |-> "DICCIONARIO_SITUACION_REGISTRO.xml", csv |-> "situacion_registro.csv"],
     [xml |-> "DICCIONARIO_UNIDAD_CONTENIDO.xml", csv |-> "unidad_contenido.csv"],
     [xml |-> "DICCIONARIO_VIAS_ADMINISTRACION.xml", csv |-> "vias_administracion.csv"] >>

(***************************************************************************)
(* The table of catalog jobs: (xml_name, csv_name) in declaration order.   *)
(* The third component, parser_fn, is the parser of that catalog; every    *)
(* one is an instance of impl_xml_parser and is modelled by parser_fn.     *)
(***************************************************************************)
mapping ==
  << [xml |-> "DICCIONARIO_ATC.xml", csv |-> "atc.csv"],
     [xml |-> "DICCIONARIO_DCP.xml", csv |-> "dcp.csv"],
     [xml |-> "DICCIONARIO_DCPF.xml", csv |-> "dcpf.csv"],
     [xml |-> "DICCIONARIO_DCSA.xml", csv |-> "dcsa.csv"],
     [xml |-> "DICCIONARIO_ENVASES.xml", csv |-> "envases.csv"],
     [xml |-> "DICCIONARIO_EXCIPIENTES_DECL_OBLIGATORIA.xml", csv |-> "excipientes.csv"],
     [xml |-> "DICCIONARIO_FORMA_FARMACEUTICA.xml", csv |-> "forma_farmaceutica.csv"],
     [xml |-> "DICCIONARIO_FORMA_FARMACEUTICA_SIMPLIFICADAS.xml",
      csv |-> "forma_farmaceutica_simplificada.csv"],
     [xml |-> "DICCIONARIO_LABORATORIOS.xml", csv |-> "laboratorios.csv"],
     [xml |-> "DICCIONARIO_PRINCIPIOS_ACTIVOS.xml", csv |-> "principios_activos.csv"],
     [xml |-> "DICCIONARIO_SITUACION_REGISTRO.xml", csv |-> "situacion_registro.csv"],
     [xml |-> "DICCIONARIO_UNIDAD_CONTENIDO.xml", csv |-> "unidad_contenido.csv"],
     [xml |-> "DICCIONARIO_VIAS_ADMINISTRACION.xml", csv |-> "vias_administracion.csv"] >>

Jobs == 1..Len(mapping)

PrescriptionXml == "Prescripcion.xml"

\* the 7 files parse_prescription_xml_to_csvs writes, in creation order
PrescriptionCsvs ==
  << "prescriptions.csv", "prescription_forms.csv",
     "prescription_active_ingredients.csv", "prescription_admin_routes.csv",
     "prescription_atc.csv", "prescription_atc_duplicates.csv",
     "prescription_supply_problems.csv" >>

XmlFiles == {mapping[j].xml : j \in Jobs} \cup {PrescriptionXml}

CsvFiles ==
  {mapping[j].csv : j \in Jobs} \cup {PrescriptionCsvs[i] : i \in 1..Len(PrescriptionCsvs)}

(***************************************************************************)
(* What a source file is to the program that reads it:                     *)
(*   absent  the path does not exist                                       *)
(*   good    it opens and deserializes                                     *)
(*   bad     File::open or from_reader fails on it                         *)
(*   panic   the blocking task that parses it panics                       *)
(***************************************************************************)
Kinds == {"absent", "good", "bad", "panic"}

\* the catalog inputs explored: all files of one kind (present or absent), but
\* for one of the first MaxVaried, which is of any kind
CatalogInputs ==
  { [j \in Jobs |-> IF j = p THEN k ELSE base] :
      p \in 1..MaxVaried, k \in Kinds, base \in {"good", "absent"} }

\* the contents of a dump: one kind per source file
Dumps ==
  { [f \in XmlFiles |->
       IF f = PrescriptionXml THEN p
       ELSE c[CHOOSE j \in Jobs : mapping[j].xml = f]] :
      c \in CatalogInputs, p \in {"absent", "good", "bad"} }

NoFiles == [f \in XmlFiles |-> "absent"]

\* the entries of the remote ZIP: the files of a dump, in table order
ArchiveOf(dump) ==
  LET names == [i \in 1..(Len(mapping) + 1) |->
                  IF i <= Len(mapping) THEN mapping[i].xml ELSE PrescriptionXml]
  IN  SelectSeq(names, LAMBDA f : dump[f] # "absent")

VARIABLES
  pc,                   \* position of process_csv / main
  concurrency,          \* the concurrency level in use
  work_dir,             \* path of the working directory
  dirExists,            \* the working directory exists
  listable,             \* read_dir succeeds on the working directory
  disk,                 \* kind of each source file in the working directory
  extra,                \* the working directory holds entries other than source files
  remote,               \* the dump served at NOMENCLATOR_DUMP_URL
  out,                  \* state of each CSV file in the output directory
  out0,                 \* the output directory as the run found it
  fpc,                  \* position of download_and_extract_nomenclator
  idx,                  \* index i of the extraction loop
  archive,              \* entries of the opened ZipArchive
  fetchRet,             \* value returned by the last call of the fetcher
  netRequests,          \* HTTP requests issued so far
  wrote,                \* the current call of the fetcher created or wrote something
  calls,                \* direct calls of the fetcher made so far
  entry,                \* the file system and request count the current call found
  rets,                 \* what those calls found, did and returned, in order
  next,                 \* position of stream::iter(mapping)
  jobState,             \* state of each catalog job
  task,                 \* state of each job's future and blocking task
  results,              \* the collected results (order is not observed)
  parserCalls,          \* source files a parser was invoked on
  prescription_result,  \* result of step 4
  summary,              \* what step 5 printed
  outcome,              \* what process_csv / main returned
  ppc,                  \* position of the parser function under study
  xml,                  \* the file at xml_path
  list,                 \* the value from_reader returned
  files,                \* the files at the output paths
  files0,               \* those files as the call found them
  rows_per_buffer,      \* rows a csv::Writer holds before it writes to its file
  wtrs,                 \* the csv::Writers of the call
  plan,                 \* the writes the loop over list.records makes, in order
  at,                   \* writes of the pass done so far
  flushed,              \* paths whose writer's flush() returned Ok, in order
  parseRet,             \* value returned by the parser function
  fn_name,              \* the parser function under study
  mut_record            \* the record the loop of a catalog parser holds

fsVars == <<dirExists, listable, disk, extra, out>>
fetchVars == <<fpc, idx, archive, fetchRet, netRequests, wrote>>
jobVars == <<next, jobState, task, results, parserCalls>>
callVars == <<fn_name, mut_record>>
parserVars == <<ppc, xml, list, files, files0, rows_per_buffer, wtrs, plan, at,
                flushed, parseRet, callVars>>
vars == <<pc, concurrency, work_dir, remote, out0, fsVars, fetchVars, calls, entry,
          rets, jobVars, prescription_result, summary, outcome, parserVars>>

Dirs == {"nomenclator_data", "work"}

\* the working directory exists and holds at least one entry
Populated == dirExists /\ (extra \/ \E f \in XmlFiles : disk[f] # "absent")

\* target_dir.exists() && read_dir(..).map(|mut d| d.next().is_some()).unwrap_or(false)
NonEmpty == dirExists /\ (IF listable THEN Populated ELSE FALSE)

\* what a call of the fetcher finds when it starts
Found ==
  [populated |-> Populated, nonEmpty |-> NonEmpty, fs |-> fsVars,
   requests |-> netRequests]

(***************************************************************************)
(* The file systems a run may find.  A populated working directory is the  *)
(* trace of an earlier run, which also left its CSV files; a missing or    *)
(* empty one is a first run, and the dump is then what the server sends.   *)
(* `lists` are the answers read_dir may give on a directory that exists.   *)
(***************************************************************************)
InitFs(lists) ==
  /\ \E dump \in Dumps, scen \in {"populated", "empty", "missing"} :
       /\ remote = dump
       /\ dirExists = (scen # "missing")
       /\ listable \in (IF scen = "missing" THEN {TRUE} ELSE lists)
       /\ disk = IF scen = "populated" THEN dump ELSE NoFiles
       /\ extra = (scen = "populated")
       /\ out = [c \in CsvFiles |-> IF scen = "populated" THEN "old" ELSE "absent"]
  /\ out0 = out

InitRest ==
  /\ concurrency = 0
  /\ fpc = "idle" /\ idx = 0 /\ archive = << >> /\ fetchRet = [tag |-> "none"]
  /\ netRequests = 0 /\ wrote = FALSE /\ calls = 0 /\ rets = << >>
  /\ entry = Found
  /\ next = 1
  /\ jobState = [j \in Jobs |-> "Pending"]
  /\ task = [j \in Jobs |-> "none"]
  /\ results = EmptyBag
  /\ parserCalls = {}
  /\ prescription_result = "none"
  /\ summary = [tag |-> "none"]
  /\ outcome = "none"

\* no parser function is under study
ParserIdle ==
  /\ ppc = "idle" /\ xml = [kind |-> "absent"] /\ list = [records |-> << >>]
  /\ files = << >> /\ files0 = << >> /\ rows_per_buffer = 0 /\ wtrs = << >>
  /\ plan = << >> /\ at = 0 /\ flushed = << >> /\ parseRet = [tag |-> "none"]
  /\ fn_name = "none" /\ mut_record = << >>

\* process_csv on the default working directory (nomenclator_csv.rs:38),
\* which it can list
Init ==
  pc = "start" /\ work_dir = "nomenclator_data" /\ InitFs({TRUE}) /\ InitRest /\ ParserIdle

\* a caller of the fetcher alone, as downloader.rs's test is, on any directory
InitFetch ==
  pc = "direct" /\ work_dir \in Dirs /\ InitFs(BOOLEAN) /\ InitRest /\ ParserIdle

(***************************************************************************)
(* download_and_extract_nomenclator(target_dir), one action per stage.     *)
(* target_dir is work_dir in every call.  A stage that can fail draws its  *)
(* outcome; `?` returns the error at once.                                 *)
(***************************************************************************)
RetNone == [tag |-> "none"]
RetOk(path) == [tag |-> "Ok", path |-> path]
RetErr(ctx) == [tag |-> "Err", ctx |-> ctx]

\* FetchCheck without the short-circuit: every call downloads
FetchCheck_AlwaysDownload ==
  /\ fpc = "check"
  /\ fpc' = "mkdir"
  /\ UNCHANGED <<pc, concurrency, work_dir, parserVars, remote, out0, fsVars, idx, archive,
                 fetchRet, netRequests, wrote, calls, entry, rets, jobVars,
                 prescription_result, summary, outcome>>

\* lines 13-21: the short-circuit on a populated directory
FetchCheck ==
  /\ fpc = "check"
  /\ IF NonEmpty
       THEN fpc' = "ret" /\ fetchRet' = RetOk(work_dir)
       ELSE fpc' = "mkdir" /\ UNCHANGED fetchRet
  /\ UNCHANGED <<pc, concurrency, work_dir, parserVars, remote, out0, fsVars, idx, archive,
                 netRequests, wrote, calls, entry, rets, jobVars,
                 prescription_result, summary, outcome>>

\* line 23: create_dir_all; it can fail only when it has something to create
FetchCreateDir ==
  /\ fpc = "mkdir"
  /\ \E ok \in (IF dirExists THEN {TRUE} ELSE BOOLEAN) :
       IF ok
       THEN /\ dirExists' = TRUE /\ fpc' = "get"
            /\ wrote' = (wrote \/ ~dirExists)
            /\ UNCHANGED fetchRet
       ELSE /\ fpc' = "ret"
            /\ fetchRet' = RetErr("Failed to create target directory")
            /\ UNCHANGED <<dirExists, wrote>>
  /\ UNCHANGED <<pc, concurrency, work_dir, parserVars, remote, out0, listable, disk, extra, out,
                 idx, archive, netRequests, calls, entry, rets, jobVars, prescription_result,
                 summary, outcome>>

\* lines 25-32: the GET and the read of the body
FetchGet ==
  /\ fpc = "get"
  /\ netRequests' = netRequests + 1
  /\ \E r \in {"ok", "Failed to download nomenclator dump",
                "Failed to read response bytes"} :
       IF r = "ok"
       THEN fpc' = "open" /\ UNCHANGED fetchRet
       ELSE fpc' = "ret" /\ fetchRet' = RetErr(r)
  /\ UNCHANGED <<pc, concurrency, work_dir, parserVars, remote, out0, fsVars, idx, archive,
                 wrote, calls, entry, rets, jobVars, prescription_result, summary,
                 outcome>>

\* lines 33-34: ZipArchive::new on the body
FetchOpen ==
  /\ fpc = "open"
  /\ \E ok \in BOOLEAN :
       IF ok
       THEN /\ archive' = ArchiveOf(remote) /\ idx' = 0 /\ fpc' = "extract"
            /\ UNCHANGED fetchRet
       ELSE /\ fpc' = "ret" /\ fetchRet' = RetErr("Failed to open zip archive")
            /\ UNCHANGED <<archive, idx>>
  /\ UNCHANGED <<pc, concurrency, work_dir, parserVars, remote, out0, fsVars, netRequests,
                 wrote, calls, entry, rets, jobVars, prescription_result, summary, outcome>>

\* FetchExtract without the `?` of the loop body: a failed entry is skipped
FetchExtract_SkipFailed ==
  /\ fpc = "extract"
  /\ IF idx < Len(archive)
     THEN LET f == archive[idx + 1] IN
          \E r \in {"ok", "Failed to access file in zip",
                    "Failed to create output file", "Failed to copy file content"} :
            /\ disk' = CASE r = "ok" -> [disk EXCEPT ![f] = remote[f]]
                         [] r = "Failed to copy file content" ->
                              [disk EXCEPT ![f] = "bad"]
                         [] OTHER -> disk
            /\ wrote' = (wrote \/ r \in {"ok", "Failed to copy file content"})
            /\ idx' = idx + 1 /\ UNCHANGED <<fpc, fetchRet>>
     ELSE /\ fpc' = "ret" /\ fetchRet' = RetOk(work_dir)
          /\ UNCHANGED <<disk, idx, wrote>>
  /\ UNCHANGED <<pc, concurrency, work_dir, parserVars, remote, out0, dirExists, listable, extra, out,
                 archive, netRequests, calls, entry, rets, jobVars, prescription_result,
                 summary, outcome>>

\* lines 36-55: one turn of the loop over the entries (all of them files),
\* or the return once the loop is over.  A failed copy leaves a truncated file.
FetchExtract ==
  /\ fpc = "extract"
  /\ IF idx < Len(archive)
     THEN LET f == archive[idx + 1] IN
          \E r \in {"ok", "Failed to access file in zip",
                    "Failed to create output file", "Failed to copy file content"} :
            /\ disk' = CASE r = "ok" -> [disk EXCEPT ![f] = remote[f]]
                         [] r = "Failed to copy file content" ->
                              [disk EXCEPT ![f] = "bad"]
                         [] OTHER -> disk
            /\ wrote' = (wrote \/ r \in {"ok", "Failed to copy file content"})
            /\ IF r = "ok"
               THEN idx' = idx + 1 /\ UNCHANGED <<fpc, fetchRet>>
               ELSE fpc' = "ret" /\ fetchRet' = RetErr(r) /\ UNCHANGED idx
     ELSE /\ fpc' = "ret" /\ fetchRet' = RetOk(work_dir)
          /\ UNCHANGED <<disk, idx, wrote>>
  /\ UNCHANGED <<pc, concurrency, work_dir, parserVars, remote, out0, dirExists, listable, extra, out,
                 archive, netRequests, calls, entry, rets, jobVars, prescription_result,
                 summary, outcome>>

(***************************************************************************)
(* A caller that invokes the fetcher on its own, several times over.       *)
(***************************************************************************)
DirectCall ==
  /\ pc = "direct" /\ fpc = "idle" /\ calls < MaxCalls
  /\ fpc' = "check" /\ calls' = calls + 1
  /\ entry' = Found /\ wrote' = FALSE
  /\ UNCHANGED <<pc, concurrency, work_dir, parserVars, remote, out0, fsVars, idx, archive,
                 fetchRet, netRequests, rets, jobVars, prescription_result, summary,
                 outcome>>

\* the return to that caller, which drops the fetcher's locals
DirectReturn ==
  /\ pc = "direct" /\ fpc = "ret"
  /\ fpc' = "idle" /\ idx' = 0 /\ archive' = << >>
  /\ rets' = Append(rets, [populated |-> entry.populated,
                           nonEmpty |-> entry.nonEmpty, ret |-> fetchRet,
                           requests |-> netRequests - entry.requests,
                           wrote |-> wrote,
                           changed |-> (fsVars # entry.fs)])
  /\ UNCHANGED <<pc, concurrency, work_dir, parserVars, remote, out0, fsVars, fetchRet,
                 netRequests, wrote, calls, entry, jobVars, prescription_result,
                 summary, outcome>>

NextFetch == DirectCall \/ FetchCheck \/ FetchCreateDir \/ FetchGet \/ FetchOpen
               \/ FetchExtract \/ DirectReturn

FetchSpec == InitFetch /\ [][NextFetch]_vars

(***************************************************************************)
(* process_csv (nomenclator.rs) and main (nomenclator_csv.rs): the two     *)
(* are the same code but for their log lines.                              *)
(***************************************************************************)
\* Option<usize> as a sequence of length at most one
ConcurrencyArgs == {<< >>} \cup {<<k>> : k \in 0..MaxConcurrency}

unwrap_or(opt, default) == IF Len(opt) = 0 THEN default ELSE opt[1]

\* lines 209-220: the two create_dir_all and the concurrency level
Start ==
  /\ pc = "start"
  /\ \E ok \in (IF dirExists THEN {TRUE} ELSE BOOLEAN) :
       IF ok
       THEN /\ dirExists' = TRUE
            /\ \E arg \in ConcurrencyArgs, num_cores \in 1..MaxConcurrency :
                 concurrency' = unwrap_or(arg, num_cores)
            /\ pc' = "fetch"
            /\ UNCHANGED outcome
       ELSE /\ pc' = "done" /\ outcome' = "Err"
            /\ UNCHANGED <<dirExists, concurrency>>
  /\ UNCHANGED <<work_dir, parserVars, remote, out0, listable, disk, extra, out, fetchVars, calls,
                 entry,
                 rets, jobVars, prescription_result, summary>>

\* step 1: `download_and_extract_nomenclator(&work_dir).await?`, the call
CallFetch ==
  /\ pc = "fetch" /\ fpc = "idle"
  /\ pc' = "fetching" /\ fpc' = "check"
  /\ entry' = Found /\ wrote' = FALSE
  /\ UNCHANGED <<concurrency, work_dir, parserVars, remote, out0, fsVars, idx, archive, fetchRet,
                 netRequests, calls, rets, jobVars, prescription_result,
                 summary, outcome>>

\* AfterFetch without the `?`: the result of the fetch is dropped
AfterFetch_IgnoreError ==
  /\ pc = "fetching" /\ fpc = "ret"
  /\ fpc' = "idle" /\ idx' = 0 /\ archive' = << >>
  /\ pc' = "dispatch"
  /\ UNCHANGED <<concurrency, work_dir, parserVars, remote, out0, fsVars, fetchRet, netRequests, wrote, calls, entry, rets, jobVars,
                 prescription_result, summary, outcome>>

\* ... and its return, which drops the fetcher's locals: `?` ends the run on
\* an error
AfterFetch ==
  /\ pc = "fetching" /\ fpc = "ret"
  /\ fpc' = "idle" /\ idx' = 0 /\ archive' = << >>
  /\ IF fetchRet.tag = "Ok"
     THEN pc' = "dispatch" /\ UNCHANGED outcome
     ELSE pc' = "done" /\ outcome' = "Err"
  /\ UNCHANGED <<concurrency, work_dir, parserVars, remote, out0, fsVars, fetchRet, netRequests, wrote, calls, entry, rets, jobVars,
                 prescription_result, summary>>

(***************************************************************************)
(* Step 3: stream::iter(mapping).map(..).buffer_unordered(concurrency)     *)
(*         .collect().  A job's future is in the buffer from the moment    *)
(* it is pulled from the stream until it returns.                          *)
(***************************************************************************)
InBuffer == {j \in Jobs : task[j] \in {"unpolled", "blocking", "ok", "err", "panic"}}

\* Filling with no bound on the buffer: every job is pulled at once
Filling_Unbounded == next <= Len(mapping)

\* buffer_unordered pulls from the stream while it holds fewer than
\* `concurrency` futures, and does so before it polls any of them
Filling == next <= Len(mapping) /\ Cardinality(InBuffer) < concurrency

ResOk(j, parsed) ==
  [tag |-> "Ok", xml_name |-> mapping[j].xml, csv_name |-> mapping[j].csv,
   parsed |-> parsed]
ResErr(msg) == [tag |-> "Err", msg |-> msg]

Add(bag, e) == bag (+) SetToBag({e})

Pull(j) ==
  /\ pc = "dispatch" /\ Filling /\ j = next
  /\ next' = next + 1
  /\ jobState' = [jobState EXCEPT ![j] = "Running"]
  /\ task' = [task EXCEPT ![j] = "unpolled"]
  /\ UNCHANGED <<pc, concurrency, work_dir, parserVars, remote, out0, fsVars, fetchVars, calls,
                 entry, rets, results, parserCalls, prescription_result, summary, outcome>>

\* FirstPoll without the exists() test: the parser is spawned on any path
FirstPoll_NoExistsCheck(j) ==
  /\ pc = "dispatch" /\ ~Filling /\ task[j] = "unpolled"
  /\ task' = [task EXCEPT ![j] = "blocking"]
  /\ UNCHANGED <<pc, concurrency, work_dir, parserVars, remote, out0, fsVars, fetchVars, calls,
                 entry, rets, next, jobState, results, parserCalls,
                 prescription_result, summary, outcome>>

\* first poll of the async block: the exists() test, then spawn_blocking
FirstPoll(j) ==
  /\ pc = "dispatch" /\ ~Filling /\ task[j] = "unpolled"
  /\ IF disk[mapping[j].xml] = "absent"
     THEN /\ jobState' = [jobState EXCEPT ![j] = "Skipped"]
          /\ task' = [task EXCEPT ![j] = "done"]
          /\ results' = Add(results, ResOk(j, FALSE))
     ELSE /\ task' = [task EXCEPT ![j] = "blocking"]
          /\ UNCHANGED <<jobState, results>>
  /\ UNCHANGED <<pc, concurrency, work_dir, parserVars, remote, out0, fsVars, fetchVars, calls,
                 entry, rets, next, parserCalls, prescription_result, summary, outcome>>

\* impl_xml_parser: what parser_fn(xml_path, csv_path) returns and what it
\* leaves at csv_path (`before` is what was there), for each kind of source
parser_fn(kind, before) ==
  CASE kind = "good" -> {[ret |-> "ok", csv |-> "written"]}
    [] kind = "panic" -> {[ret |-> "panic", csv |-> c] : c \in {before, "partial"}}
    [] OTHER -> {[ret |-> "err", csv |-> before]}

\* a parser that fails when another parser is at work at the same moment
ParserRun_Contended(j) ==
  /\ task[j] = "blocking"
  /\ IF \E k \in Jobs \ {j} : task[k] = "blocking"
     THEN task' = [task EXCEPT ![j] = "err"] /\ UNCHANGED out
     ELSE \E r \in parser_fn(disk[mapping[j].xml], out[mapping[j].csv]) :
            /\ task' = [task EXCEPT ![j] = r.ret]
            /\ out' = [out EXCEPT ![mapping[j].csv] = r.csv]
  /\ parserCalls' = parserCalls \cup {mapping[j].xml}
  /\ UNCHANGED <<pc, concurrency, work_dir, parserVars, remote, out0, dirExists, listable, disk, extra,
                 fetchVars, calls, entry, rets, next, jobState, results,
                 prescription_result, summary, outcome>>

\* the blocking task, on a thread of the blocking pool
ParserRun(j) ==
  /\ task[j] = "blocking"
  /\ \E r \in parser_fn(disk[mapping[j].xml], out[mapping[j].csv]) :
       /\ task' = [task EXCEPT ![j] = r.ret]
       /\ out' = [out EXCEPT ![mapping[j].csv] = r.csv]
  /\ parserCalls' = parserCalls \cup {mapping[j].xml}
  /\ UNCHANGED <<pc, concurrency, work_dir, parserVars, remote, out0, dirExists, listable, disk, extra,
                 fetchVars, calls, entry, rets, next, jobState, results,
                 prescription_result, summary, outcome>>

\* PollJoin as try_collect would have it: the first Err ends the run
PollJoin_FailFast(j) ==
  /\ pc = "dispatch" /\ ~Filling /\ task[j] \in {"ok", "err", "panic"}
  /\ task' = [task EXCEPT ![j] = "done"]
  /\ IF task[j] = "ok"
     THEN /\ jobState' = [jobState EXCEPT ![j] = "Succeeded"]
          /\ results' = Add(results, ResOk(j, TRUE))
          /\ UNCHANGED <<pc, outcome>>
     ELSE /\ jobState' = [jobState EXCEPT ![j] = "Failed"]
          /\ pc' = "done" /\ outcome' = "Err"
          /\ UNCHANGED results
  /\ UNCHANGED <<concurrency, work_dir, parserVars, remote, out0, fsVars, fetchVars, calls,
                 entry, rets, next, parserCalls, prescription_result, summary>>

\* PollJoin with `.await.unwrap()` on the JoinHandle: a panic is resumed
PollJoin_Unwrap(j) ==
  /\ pc = "dispatch" /\ ~Filling /\ task[j] \in {"ok", "err", "panic"}
  /\ task' = [task EXCEPT ![j] = "done"]
  /\ CASE task[j] = "ok" ->
            /\ jobState' = [jobState EXCEPT ![j] = "Succeeded"]
            /\ results' = Add(results, ResOk(j, TRUE))
            /\ UNCHANGED <<pc, outcome>>
       [] task[j] = "err" ->
            /\ jobState' = [jobState EXCEPT ![j] = "Failed"]
            /\ results' = Add(results, ResErr("parse"))
            /\ UNCHANGED <<pc, outcome>>
       [] task[j] = "panic" ->
            /\ pc' = "done" /\ outcome' = "Err"
            /\ UNCHANGED <<jobState, results>>
  /\ UNCHANGED <<concurrency, work_dir, parserVars, remote, out0, fsVars, fetchVars, calls,
                 entry, rets, next, parserCalls, prescription_result, summary>>

\* PollJoin that keeps the Ok results only (filter_map(Result::ok))
PollJoin_DropErr(j) ==
  /\ pc = "dispatch" /\ ~Filling /\ task[j] \in {"ok", "err", "panic"}
  /\ task' = [task EXCEPT ![j] = "done"]
  /\ IF task[j] = "ok"
     THEN /\ jobState' = [jobState EXCEPT ![j] = "Succeeded"]
          /\ results' = Add(results, ResOk(j, TRUE))
     ELSE /\ jobState' = [jobState EXCEPT ![j] = "Failed"]
          /\ UNCHANGED results
  /\ UNCHANGED <<concurrency, work_dir, parserVars, remote, out0, fsVars, fetchVars, calls,
                 entry, rets, next, parserCalls, prescription_result, summary, pc,
                 outcome>>

\* the poll that finds the JoinHandle ready: the `match result`
PollJoin(j) ==
  /\ pc = "dispatch" /\ ~Filling /\ task[j] \in {"ok", "err", "panic"}
  /\ task' = [task EXCEPT ![j] = "done"]
  /\ CASE task[j] = "ok" ->
            /\ jobState' = [jobState EXCEPT ![j] = "Succeeded"]
            /\ results' = Add(results, ResOk(j, TRUE))
       [] task[j] = "err" ->
            /\ jobState' = [jobState EXCEPT ![j] = "Failed"]
            /\ results' = Add(results, ResErr("parse"))
       [] task[j] = "panic" ->
            /\ jobState' = [jobState EXCEPT ![j] = "Failed"]
            /\ results' = Add(results, ResErr("Task join error"))
  /\ UNCHANGED <<pc, concurrency, work_dir, parserVars, remote, out0, fsVars, fetchVars, calls,
                 entry, rets, next, parserCalls, prescription_result, summary, outcome>>

\* Collected that looks at the stream alone: jobs in the buffer are not awaited
Collected_StreamOnly == next > Len(mapping)

\* collect() returns once the stream is exhausted and the buffer is empty
Collected == next > Len(mapping) /\ InBuffer = {}

DispatchDone ==
  /\ pc = "dispatch" /\ Collected
  /\ pc' = "prescription"
  /\ UNCHANGED <<concurrency, work_dir, parserVars, remote, out0, fsVars, fetchVars, calls, entry, rets,
                 jobVars, prescription_result, summary, outcome>>

(***************************************************************************)
(* Step 4: the prescription file, on the orchestrator's own thread.        *)
(***************************************************************************)
\* PrescriptionStep without the exists() test: the parser is called on any
\* path, and fails to open one that is not there
PrescriptionStep_NoExistsCheck ==
  /\ pc = "prescription"
  /\ pc' = "report"
  /\ parserCalls' = parserCalls \cup {PrescriptionXml}
  /\ IF disk[PrescriptionXml] = "good"
     THEN /\ prescription_result' = "Ok"
          /\ out' = [c \in CsvFiles |->
                       IF \E i \in 1..Len(PrescriptionCsvs) : PrescriptionCsvs[i] = c
                       THEN "written" ELSE out[c]]
     ELSE /\ prescription_result' = "Err"
          /\ UNCHANGED out
  /\ UNCHANGED <<concurrency, work_dir, parserVars, remote, out0, dirExists, listable, disk, extra,
                 fetchVars, calls, entry, rets, next, jobState, task, results, summary,
                 outcome>>

PrescriptionStep ==
  /\ pc = "prescription"
  /\ pc' = "report"
  /\ CASE disk[PrescriptionXml] = "absent" ->
            /\ prescription_result' = "Ok"
            /\ UNCHANGED <<out, parserCalls>>
       [] disk[PrescriptionXml] = "good" ->
            /\ prescription_result' = "Ok"
            /\ parserCalls' = parserCalls \cup {PrescriptionXml}
            /\ out' = [c \in CsvFiles |->
                         IF \E i \in 1..Len(PrescriptionCsvs) : PrescriptionCsvs[i] = c
                         THEN "written" ELSE out[c]]
       [] OTHER ->
            /\ prescription_result' = "Err"
            /\ parserCalls' = parserCalls \cup {PrescriptionXml}
            /\ UNCHANGED out
  /\ UNCHANGED <<concurrency, work_dir, parserVars, remote, out0, dirExists, listable, disk, extra,
                 fetchVars, calls, entry, rets, next, jobState, task, results, summary,
                 outcome>>

(***************************************************************************)
(* Step 5: the summary and the value returned.                             *)
(***************************************************************************)
RECURSIVE CopiesOf(_, _)
CopiesOf(bag, S) ==
  IF S = {} THEN 0
  ELSE LET e == CHOOSE x \in S : TRUE
       IN  CopiesIn(e, bag) + CopiesOf(bag, S \ {e})

\* results.iter().filter(|r| r.is_ok()).count() and its is_err() twin
successful == CopiesOf(results, {e \in BagToSet(results) : e.tag = "Ok"})
failed == CopiesOf(results, {e \in BagToSet(results) : e.tag = "Err"})
prescription_success == prescription_result = "Ok"

\* Bail that takes a skipped file for a failure
Bail_CountSkips ==
  \/ failed > 0
  \/ ~prescription_success
  \/ \E e \in BagToSet(results) : e.tag = "Ok" /\ ~e.parsed

\* `if failed > 0 || !prescription_success { bail!(..) }`
Bail == failed > 0 \/ ~prescription_success

Report ==
  /\ pc = "report"
  /\ summary' = [tag |-> "printed", successful |-> successful, failed |-> failed,
                 showFailed |-> (failed > 0),
                 prescription_success |-> prescription_success]
  /\ outcome' = IF Bail THEN "Err" ELSE "Ok"
  /\ pc' = "done"
  /\ UNCHANGED <<concurrency, work_dir, parserVars, remote, out0, fsVars, fetchVars, calls, entry, rets,
                 jobVars, prescription_result>>

Next ==
  \/ Start
  \/ CallFetch
  \/ FetchCheck \/ FetchCreateDir \/ FetchGet \/ FetchOpen \/ FetchExtract
  \/ AfterFetch
  \/ \E j \in Jobs : Pull(j)
  \/ \E j \in Jobs : FirstPoll(j)
  \/ \E j \in Jobs : ParserRun(j)
  \/ \E j \in Jobs : PollJoin(j)
  \/ DispatchDone
  \/ PrescriptionStep
  \/ Report

Spec == Init /\ [][Next]_vars

(***************************************************************************)
(* Properties.                                                             *)
(***************************************************************************)
Terminal == {"Skipped", "Succeeded", "Failed"}

Running == {j \in Jobs : jobState[j] = "Running"}

AllTerminal == \A j \in Jobs : jobState[j] \in Terminal

Printed == summary.tag = "printed"

\* the run returned after a fetch that succeeded
Returned == outcome # "none" /\ fetchRet.tag = "Ok"

\* C1: at any moment the catalog jobs that have been started and have not
\* reached Skipped, Succeeded or Failed number at most the concurrency level.
C1_ConcurrencyBound == Cardinality(Running) <= concurrency

\* a full buffer of parsers at work while jobs are still waiting
C1_Witness ==
  /\ concurrency >= 2
  /\ Cardinality(Running) = concurrency
  /\ \A j \in Running : task[j] = "blocking"
  /\ \E j \in Jobs : jobState[j] = "Pending"

\* C2: once a parser has returned an error the run goes on: it can always
\* take a step until it returns, it returns only after every job is terminal,
\* the prescription step has run and the summary is printed, and the error
\* then shows as the run's result.
C2_FailAtEnd ==
  (\E j \in Jobs : disk[mapping[j].xml] = "bad" /\ task[j] \in {"err", "done"}) =>
    /\ outcome = "none" => ENABLED Next
    /\ outcome # "none" =>
         /\ AllTerminal
         /\ prescription_result # "none"
         /\ Printed /\ summary.failed >= 1
         /\ outcome = "Err"

\* a run that ended with one parse error, a sibling parsed after it and the
\* prescription file parsed
C2_Witness ==
  /\ outcome = "Err"
  /\ CopiesIn(ResErr("parse"), results) = 1
  /\ \E j \in Jobs : jobState[j] = "Succeeded"
  /\ PrescriptionXml \in parserCalls
  /\ prescription_result = "Ok"

\* C3: a panic in one job's parser makes that job Failed with a task join
\* error and no other job; only jobs whose parser failed are Failed; and the
\* run returns only with every job terminal and the summary printed.
C3_PanicIsolation ==
  /\ \A j \in Jobs :
       /\ (disk[mapping[j].xml] = "panic" /\ jobState[j] \in Terminal) =>
            jobState[j] = "Failed" /\ BagIn(ResErr("Task join error"), results)
       /\ jobState[j] = "Failed" => disk[mapping[j].xml] \in {"bad", "panic"}
  /\ CopiesIn(ResErr("Task join error"), results) =
       Cardinality({j \in Jobs : disk[mapping[j].xml] = "panic" /\ jobState[j] = "Failed"})
  /\ (\E j \in Jobs : task[j] \in {"panic", "done"} /\ disk[mapping[j].xml] = "panic") =>
       /\ outcome = "none" => ENABLED Next
       /\ outcome # "none" => AllTerminal /\ Printed

\* a run that reported after one parser panicked and the other twelve parsed
C3_Witness ==
  /\ Printed
  /\ CopiesIn(ResErr("Task join error"), results) = 1
  /\ Cardinality({j \in Jobs : jobState[j] = "Succeeded"}) = Len(mapping) - 1

\* C4: a run that got past the fetch returns an error exactly when a catalog
\* job ended Failed or the prescription step failed; skipped jobs do not count.
C4_OverallOutcome ==
  Returned =>
    (outcome = "Err" <=>
       \/ \E j \in Jobs : jobState[j] = "Failed"
       \/ prescription_result = "Err")

\* a run that returned Ok although a catalog file was absent
C4_Witness ==
  /\ Returned /\ outcome = "Ok"
  /\ \E j \in Jobs : jobState[j] = "Skipped"
  /\ \E j \in Jobs : jobState[j] = "Succeeded"

\* the prescription step has begun
PrescriptionStarted ==
  \/ pc \in {"prescription", "report"}
  \/ prescription_result # "none"
  \/ PrescriptionXml \in parserCalls

\* C5: the prescription step begins only when all catalog jobs are terminal.
C5_PrescriptionAfterJobs == PrescriptionStarted => AllTerminal

\* the prescription parser was called after jobs had run two at a time
C5_Witness ==
  /\ PrescriptionXml \in parserCalls
  /\ concurrency >= 2
  /\ \E j \in Jobs : jobState[j] = "Succeeded"

\* C6: a job whose source file does not exist never becomes Failed, ends
\* Skipped, has no parser called on its file, and its CSV file stays as the
\* run found it.
C6_AbsentIsSkip ==
  \A j \in Jobs :
    disk[mapping[j].xml] = "absent" =>
      /\ jobState[j] \in {"Pending", "Running", "Skipped"}
      /\ task[j] \in {"none", "unpolled", "done"}
      /\ mapping[j].xml \notin parserCalls
      /\ out[mapping[j].csv] = out0[mapping[j].csv]

\* a skipped job whose CSV of an earlier run is still there, next to a job
\* that wrote its own
C6_Witness ==
  \E j, k \in Jobs :
    /\ disk[mapping[j].xml] = "absent" /\ jobState[j] = "Skipped"
    /\ out[mapping[j].csv] = "old"
    /\ jobState[k] = "Succeeded" /\ out[mapping[k].csv] = "written"

\* C7: the summary counts as succeeded the jobs that ended Succeeded, as
\* failed those that ended Failed, and the skipped ones in neither.
C7_ReportCounts ==
  Printed =>
    /\ summary.successful = Cardinality({j \in Jobs : jobState[j] = "Succeeded"})
    /\ summary.failed = Cardinality({j \in Jobs : jobState[j] = "Failed"})

\* one step of the job state machine
JobStep(j) ==
  \/ jobState'[j] = jobState[j]
  \/ jobState[j] = "Pending" /\ jobState'[j] = "Running"
  \/ jobState[j] = "Running" /\ jobState'[j] \in Terminal

\* one result per job: an Ok entry for each Skipped or Succeeded job, with
\* its names, and as many Err entries as there are Failed jobs
OneResultPerJob ==
  /\ BagCardinality(results) = Len(mapping)
  /\ \A j \in Jobs :
       /\ jobState[j] = "Skipped" => CopiesIn(ResOk(j, FALSE), results) = 1
       /\ jobState[j] = "Succeeded" => CopiesIn(ResOk(j, TRUE), results) = 1
  /\ failed = Cardinality({j \in Jobs : jobState[j] = "Failed"})

\* C8: a job only moves Pending -> Running -> Skipped, Succeeded or Failed,
\* and once the dispatch phase is over there is exactly one result per job.
C8_JobStateMachine ==
  /\ [][\A j \in Jobs : JobStep(j)]_vars
  /\ [](PrescriptionStarted => OneResultPerJob)

\* the dispatch phase ended with jobs in each of the three terminal states
C8_Witness ==
  /\ pc = "prescription"
  /\ BagCardinality(results) = Len(mapping)
  /\ \E j \in Jobs : jobState[j] = "Failed"
  /\ \E j \in Jobs : jobState[j] = "Skipped"

\* a catalog job or the prescription step has started
ParsingStarted ==
  \/ \E j \in Jobs : jobState[j] # "Pending"
  \/ parserCalls # {}
  \/ pc \in {"dispatch", "prescription", "report"}
  \/ Printed

\* C9: nothing is parsed before the fetcher has returned Ok, and when it
\* returns an error the run ends with an error and no parser is called.
C9_FetchFirst ==
  /\ ParsingStarted => fetchRet.tag = "Ok" /\ fpc = "idle"
  /\ fetchRet.tag = "Err" =>
       /\ ~ParsingStarted
       /\ pc \in {"fetching", "done"}
       /\ pc = "fetching" => ENABLED AfterFetch
       /\ pc = "done" => outcome = "Err"

\* a run ended by the failure of an archive entry after another was extracted
C9_Witness ==
  /\ pc = "done" /\ outcome = "Err"
  /\ fetchRet = RetErr("Failed to create output file") /\ wrote
  /\ parserCalls = {}

\* what the calls that found `found` true did: Ok with the path given, no
\* request, nothing written, and the same again for every later call
Idempotent(found(_)) ==
  /\ (found(entry) /\ fpc # "idle") =>
       /\ fsVars = entry.fs
       /\ ~wrote /\ netRequests = entry.requests
       /\ fpc \in {"check", "ret"}
       /\ fpc = "ret" => fetchRet = RetOk(work_dir)
  /\ \A i \in 1..Len(rets) :
       found(rets[i]) =>
         /\ rets[i].ret = RetOk(work_dir)
         /\ rets[i].requests = 0
         /\ ~rets[i].wrote /\ ~rets[i].changed
         /\ \A k \in i..Len(rets) : rets[k] = rets[i]

\* C10 as claimed: a call that finds the target directory existing and
\* holding at least one entry returns Ok with the path it was given, sends
\* no request and creates, modifies or deletes nothing, and so does every
\* call after it.
C10_Claimed == Idempotent(LAMBDA e : e.populated)

\* C10, amended: a call that finds the target directory existing, listable
\* (read_dir succeeds) and holding at least one entry returns Ok with the
\* path it was given, sends no request and creates, modifies or deletes
\* nothing, and so does every call after it.
C10_IdempotentFetch == Idempotent(LAMBDA e : e.nonEmpty)

\* two calls in a row on a populated directory
C10_Witness ==
  /\ Len(rets) >= 2
  /\ rets[1].nonEmpty /\ rets[2].nonEmpty
  /\ rets[2].ret = RetOk(work_dir)

\* entry i of the archive is being extracted
Extracting == fpc = "extract" /\ idx < Len(archive)

\* the extraction loop returned an error
EntryFailed ==
  /\ fpc = "ret"
  /\ fetchRet \in {RetErr("Failed to access file in zip"),
                   RetErr("Failed to create output file"),
                   RetErr("Failed to copy file content")}

\* C11: a turn of the extraction loop touches the file of entry i alone and
\* either extracts it and moves to entry i + 1 or returns an error at once,
\* with i unchanged; once the loop has returned an error nothing is
\* extracted until that call has returned; and Ok is returned only when
\* every entry of the archive was extracted.
C11_AbortOnFirstFailure ==
  /\ [][Extracting =>
          LET f == archive[idx + 1] IN
            /\ \A g \in XmlFiles \ {f} : disk'[g] = disk[g]
            /\ \/ disk'[f] = remote[f] /\ idx' = idx + 1 /\ fpc' = "extract"
               \/ idx' = idx /\ EntryFailed']_vars
  /\ [][EntryFailed => disk' = disk /\ fetchRet' = fetchRet /\ fpc' \in {"ret", "idle"}]_vars
  /\ [](fpc = "ret" /\ fetchRet.tag = "Ok" /\ wrote =>
          \A k \in 1..Len(archive) : disk[archive[k]] = remote[archive[k]])

\* the loop failed on an entry that is neither the first nor the last: the
\* entries before it are extracted, those after it are not
C11_Witness ==
  /\ EntryFailed
  /\ idx >= 1 /\ idx + 1 < Len(archive)
  /\ \A k \in 1..idx : disk[archive[k]] = remote[archive[k]]
  /\ \A k \in (idx + 2)..Len(archive) : disk[archive[k]] = "absent"

(***************************************************************************)
(* The parsers of src/parser.rs, row by row.                               *)
(*                                                                         *)
(* An XML element is a function from the tags of its scalar children to    *)
(* Option<text> (a sequence of length at most one), with one more field    *)
(* per nested list.  A struct is declared by the sequence of its scalar    *)
(* fields: the Rust name (the CSV column), the XML tag it is renamed from  *)
(* and its type.                                                           *)
(***************************************************************************)
\* largest number of records in a document
MaxRecords == 2
\* largest length of a list nested in a prescription record
MaxList == 2

None == << >>
Some(v) == <<v>>

Ok(v) == [tag |-> "Ok", value |-> v]

\* a flag decoder that takes whatever is not "0" for true
bool_from_string_Lenient(s) ==
  CASE s = "0" -> Ok(FALSE)
    [] OTHER -> Ok(TRUE)

\* lines 9-26: the flag decoder
bool_from_string(s) ==
  CASE s = "1" -> Ok(TRUE)
    [] s = "0" -> Ok(FALSE)
    [] OTHER -> RetErr("expected '0' or '1'")

\* lines 325-389: the scalar fields of PrescriptionRecord, none renamed
PrescriptionRecord ==
  << 
     [name |-> "cod_nacion", tag |-> "cod_nacion", type |-> "String"],
     [name |-> "nro_definitivo", tag |-> "nro_definitivo", type |-> "String"],
     [name |-> "des_nomco", tag |-> "des_nomco", type |-> "String"],
     [name |-> "des_prese", tag |-> "des_prese", type |-> "String"],
     [name |-> "cod_dcsa", tag |-> "cod_dcsa", type |-> "Option"],
     [name |-> "cod_dcp", tag |-> "cod_dcp", type |-> "Option"],
     [name |-> "cod_dcpf", tag |-> "cod_dcpf", type |-> "Option"],
     [name |-> "des_dosific", tag |-> "des_dosific", type |-> "Option"],
     [name |-> "cod_envase", tag |-> "cod_envase", type |-> "Option"],
     [name |-> "contenido", tag |-> "contenido", type |-> "Option"],
     [name |-> "unid_contenido", tag |-> "unid_contenido", type |-> "Option"],
     [name |-> "nro_conte", tag |-> "nro_conte", type |-> "Option"],
     [name |-> "sw_psicotropo", tag |-> "sw_psicotropo", type |-> "bool"],
     [name |-> "sw_estupefaciente", tag |-> "sw_estupefaciente", type |-> "bool"],
     [name |-> "sw_afecta_conduccion", tag |-> "sw_afecta_conduccion", type |-> "bool"],
     [name |-> "sw_triangulo_negro", tag |-> "sw_triangulo_negro", type |-> "bool"],
     [name |-> "url_fictec", tag |-> "url_fictec", type |-> "Option"],
     [name |-> "url_prosp", tag |-> "url_prosp", type |-> "Option"],
     [name |-> "sw_receta", tag |-> "sw_receta", type |-> "bool"],
     [name |-> "sw_generico", tag |-> "sw_generico", type |-> "bool"],
     [name |-> "sw_sustituible", tag |-> "sw_sustituible", type |-> "bool"],
     [name |-> "sw_envase_clinico", tag |-> "sw_envase_clinico", type |-> "bool"],
     [name |-> "sw_uso_hospitalario", tag |-> "sw_uso_hospitalario", type |-> "bool"],
     [name |-> "sw_diagnostico_hospitalario", tag |-> "sw_diagnostico_hospitalario", type |-> "bool"],
     [name |-> "sw_tld", tag |-> "sw_tld", type |-> "bool"],
     [name |-> "sw_especial_control_medico", tag |-> "sw_especial_control_medico", type |-> "bool"],
     [name |-> "sw_huerfano", tag |-> "sw_huerfano", type |-> "bool"],
     [name |-> "sw_base_a_plantas", tag |-> "sw_base_a_plantas", type |-> "bool"],
     [name |-> "laboratorio_titular", tag |-> "laboratorio_titular", type |-> "Option"],
     [name |-> "laboratorio_comercializador", tag |-> "laboratorio_comercializador", type |-> "Option"],
     [name |-> "fecha_autorizacion", tag |-> "fecha_autorizacion", type |-> "Option"],
     [name |-> "sw_comercializado", tag |-> "sw_comercializado", type |-> "bool"],
     [name |-> "fec_comer", tag |-> "fec_comer", type |-> "Option"],
     [name |-> "cod_sitreg", tag |-> "cod_sitreg", type |-> "Option"],
     [name |-> "cod_sitreg_presen", tag |-> "cod_sitreg_presen", type |-> "Option"],
     [name |-> "fecha_situacion_registro", tag |-> "fecha_situacion_registro", type |-> "Option"],
     [name |-> "fec_sitreg_presen", tag |-> "fec_sitreg_presen", type |-> "Option"],
     [name |-> "sw_tiene_excipientes_decl_obligatoria", tag |-> "sw_tiene_excipientes_decl_obligatoria", type |-> "bool"],
     [name |-> "biosimilar", tag |-> "biosimilar", type |-> "bool"],
     [name |-> "importacion_paralela", tag |-> "importacion_paralela", type |-> "bool"],
     [name |-> "radiofarmaco", tag |-> "radiofarmaco", type |-> "bool"],
     [name |-> "serializacion", tag |-> "serializacion", type |-> "bool"] >>

\* lines 244-266
ActiveIngredient ==
  << [name |-> "active_ingredient_code", tag |-> "cod_principio_activo", type |-> "Option"],
     [name |-> "order", tag |-> "orden_colacion", type |-> "Option"],
     [name |-> "dose", tag |-> "dosis_pa", type |-> "Option"],
     [name |-> "dose_unit", tag |-> "unidad_dosis_pa", type |-> "Option"],
     [name |-> "composition_dose", tag |-> "dosis_composicion", type |-> "Option"],
     [name |-> "composition_unit", tag |-> "unidad_composicion", type |-> "Option"],
     [name |-> "administration_dose", tag |-> "dosis_administracion", type |-> "Option"],
     [name |-> "administration_unit", tag |-> "unidad_administracion", type |-> "Option"],
     [name |-> "prescription_dose", tag |-> "dosis_prescripcion", type |-> "Option"],
     [name |-> "prescription_unit", tag |-> "unidad_prescripcion", type |-> "Option"] >>

\* lines 269-273
AdminRoute ==
  << [name |-> "route_code", tag |-> "cod_via_admin", type |-> "String"] >>

\* lines 276-288, but for the two nested lists
PrescriptionForm ==
  << [name |-> "form_code", tag |-> "cod_forfar", type |-> "String"],
     [name |-> "simplified_form_code", tag |-> "cod_forfar_simplificada", type |-> "String"],
     [name |-> "num_active_ingredients", tag |-> "nro_pactiv", type |-> "Option"] >>

\* lines 291-301
AtcDuplicate ==
  << [name |-> "duplicate_atc", tag |-> "atc_duplicidad", type |-> "String"],
     [name |-> "description", tag |-> "descripcion_atc_duplicidad", type |-> "Option"],
     [name |-> "effect", tag |-> "efecto_duplicidad", type |-> "Option"],
     [name |-> "recommendation", tag |-> "recomendacion_duplicidad", type |-> "Option"] >>

\* lines 304-310, but for the nested list
PrescriptionAtc ==
  << [name |-> "atc_code", tag |-> "cod_atc", type |-> "String"] >>

\* lines 313-319
SupplyProblem ==
  << [name |-> "start_date", tag |-> "fecha_inicio", type |-> "Option"],
     [name |-> "observations", tag |-> "observaciones", type |-> "Option"] >>

Names(struct) == {struct[i].name : i \in 1..Len(struct)}
Tags(struct) == {struct[i].tag : i \in 1..Len(struct)}
Field(struct, name) == struct[CHOOSE i \in 1..Len(struct) : struct[i].name = name]

(***************************************************************************)
(* Deserialization (quick_xml::de::from_reader with the serde derives).    *)
(* A text that is decoded character by character is a sequence of          *)
(* one-character strings.                                                  *)
(***************************************************************************)
Digits == <<"0", "1", "2", "3", "4", "5", "6", "7", "8", "9">>

IsDigit(c) == \E d \in 1..Len(Digits) : Digits[d] = c

DigitOf(c) == (CHOOSE d \in 1..Len(Digits) : Digits[d] = c) - 1

\* i32::MAX and i32::MIN
I32Max == 2147483647
I32Min == 0 - I32Max - 1

\* one digit more: checked_mul by the radix, then checked_add, or
\* checked_sub when the text has a minus sign
checked_step(negative, acc, d) ==
  IF acc.tag = "Err" THEN acc
  ELSE IF negative
       THEN IF acc.value < (I32Min + d + Len(Digits) - 1) \div Len(Digits)
            THEN RetErr("number too small to fit in target type")
            ELSE Ok(acc.value * Len(Digits) - d)
       ELSE IF acc.value > (I32Max - d) \div Len(Digits)
            THEN RetErr("number too large to fit in target type")
            ELSE Ok(acc.value * Len(Digits) + d)

\* the digits after the sign, accumulated from the left
parse_digits(negative, digits) ==
  IF digits = << >> \/ \E i \in 1..Len(digits) : ~IsDigit(digits[i])
  THEN RetErr("invalid digit found in string")
  ELSE LET result[k \in 0..Len(digits)] ==
             IF k = 0 THEN Ok(0)
             ELSE checked_step(negative, result[k - 1], DigitOf(digits[k]))
       IN  result[Len(digits)]

\* str::parse::<i32>: an optional sign, then one digit or more
parse_i32(text) ==
  IF Len(text) > 0 /\ text[1] \in {"+", "-"}
  THEN parse_digits(text[1] = "-", Tail(text))
  ELSE parse_digits(FALSE, text)

\* the decimal digits of n >= 0, and of n <= 0 without the sign
RECURSIVE Decimal(_)
Decimal(n) ==
  IF n < Len(Digits) THEN <<Digits[n + 1]>>
  ELSE Decimal(n \div Len(Digits)) \o <<Digits[(n % Len(Digits)) + 1]>>

RECURSIVE DecimalNeg(_)
DecimalNeg(n) ==
  LET q == (n + Len(Digits) - 1) \div Len(Digits) IN
  IF q = 0 THEN <<Digits[(0 - n) + 1]>>
  ELSE DecimalNeg(q) \o <<Digits[(q * Len(Digits) - n) + 1]>>

\* i32's Display, which the csv serializer writes
to_string(n) == IF n < 0 THEN <<"-">> \o DecimalNeg(n) ELSE Decimal(n)

\* the child element `child` (an Option<text>) deserializes into a field
\* of the given type
child_ok(type, child) ==
  CASE type = "Option" -> TRUE
    [] type = "String" -> child # None
    [] type = "bool" -> child # None /\ bool_from_string(child[1]).tag = "Ok"
    [] type = "i32" -> child # None /\ parse_i32(child[1]).tag = "Ok"

\* and the value of the field then
child_value(type, child) ==
  CASE type = "Option" -> child
    [] type = "String" -> child[1]
    [] type = "bool" -> bool_from_string(child[1]).value
    [] type = "i32" -> parse_i32(child[1]).value

\* #[derive(Deserialize)] on a struct of scalar fields: every field from the
\* child element of its tag
deserialize_struct(struct, element) ==
  IF \A i \in 1..Len(struct) : child_ok(struct[i].type, element[struct[i].tag])
  THEN Ok([n \in Names(struct) |->
             child_value(Field(struct, n).type, element[Field(struct, n).tag])])
  ELSE RetErr("missing field or invalid value")

\* a Vec of such structs
deserialize_vec(struct, elements) ==
  IF \A i \in 1..Len(elements) : deserialize_struct(struct, elements[i]).tag = "Ok"
  THEN Ok([i \in 1..Len(elements) |-> deserialize_struct(struct, elements[i]).value])
  ELSE RetErr("missing field or invalid value")

\* a struct of scalar fields and nested values: Ok when every part is
AllOk(parts) == \A i \in 1..Len(parts) : parts[i].tag = "Ok"

\* lines 276-288: PrescriptionForm with its two lists
form_of(scalars, ingredients, routes) ==
  IF AllOk(<<scalars, ingredients, routes>>)
  THEN Ok(scalars.value @@ [active_ingredients |-> ingredients.value,
                            admin_routes |-> routes.value])
  ELSE RetErr("missing field or invalid value")

deserialize_form(element) ==
  form_of(deserialize_struct(PrescriptionForm, element.fields),
          deserialize_vec(ActiveIngredient, element.composicion_pa),
          deserialize_vec(AdminRoute, element.viasadministracion))

\* lines 304-310: PrescriptionAtc with its duplicates
atc_of(scalars, duplicates) ==
  IF AllOk(<<scalars, duplicates>>)
  THEN Ok(scalars.value @@ [duplicates |-> duplicates.value])
  ELSE RetErr("missing field or invalid value")

deserialize_atc(element) ==
  atc_of(deserialize_struct(PrescriptionAtc, element.fields),
         deserialize_vec(AtcDuplicate, element.duplicidades))

\* Option<T>: None when the element is missing
option_of(r) == IF r.tag = "Ok" THEN Ok(Some(r.value)) ELSE r

\* a Vec<T> from the results of its elements
vec_of(rs) ==
  IF AllOk(rs) THEN Ok([i \in 1..Len(rs) |-> rs[i].value])
  ELSE RetErr("missing field or invalid value")

\* lines 325-399: PrescriptionRecord; `forms` is an Option, the two lists
\* default to empty
prescription_of(scalars, forms, atc_codes, supply_problems) ==
  IF AllOk(<<scalars, forms, atc_codes, supply_problems>>)
  THEN Ok(scalars.value @@ [forms |-> forms.value, atc_codes |-> atc_codes.value,
                            supply_problems |-> supply_problems.value])
  ELSE RetErr("missing field or invalid value")

deserialize_prescription(element) ==
  prescription_of(
    deserialize_struct(PrescriptionRecord, element.fields),
    IF element.formasfarmaceuticas = None THEN Ok(None)
    ELSE option_of(deserialize_form(element.formasfarmaceuticas[1])),
    vec_of([i \in 1..Len(element.atc) |-> deserialize_atc(element.atc[i])]),
    deserialize_vec(SupplyProblem, element.problemassuministro))

\* a list struct: `records` has no default, so a document without a record
\* element is refused
list_of(records) ==
  IF records.tag = "Ok" /\ Len(records.value) > 0
  THEN Ok([records |-> records.value])
  ELSE RetErr("missing field or invalid value")

\* lines 406-412 and 573: from_reader into PrescriptionList
from_reader_prescription(file) ==
  IF file.kind # "xml" THEN RetErr("Failed to deserialize Prescription XML")
  ELSE LET r == list_of(vec_of([i \in 1..Len(file.records) |->
                                  deserialize_prescription(file.records[i])]))
       IN  IF r.tag = "Ok" THEN r ELSE RetErr("Failed to deserialize Prescription XML")

(***************************************************************************)
(* The prescription documents explored.                                    *)
(***************************************************************************)
CodNacion == <<"600000", "600001", "600002", "600003">>

\* the k-th element of a nested list holds Digits[k + 1] in its code, and
\* its optional children when k is odd
Nth(k) == Digits[k + 1]

Odd(k) == k % 2 = 1

\* an element with scalar children only
Element(struct, k) ==
  [t \in Tags(struct) |->
     LET f == struct[CHOOSE i \in 1..Len(struct) : struct[i].tag = t]
     IN  IF f.type = "Option" /\ ~Odd(k) THEN None ELSE Some(Nth(k))]

Elements(struct, n) == [k \in 1..n |-> Element(struct, k)]

FormElement(n) ==
  [fields |-> Element(PrescriptionForm, n),
   composicion_pa |-> Elements(ActiveIngredient, n),
   viasadministracion |-> Elements(AdminRoute, n)]

\* every ATC assignment of a record lists the same n duplicates
AtcElement(k, n) ==
  [fields |-> Element(PrescriptionAtc, k), duplicidades |-> Elements(AtcDuplicate, n)]

FlagTags == {PrescriptionRecord[i].tag : i \in {i \in 1..Len(PrescriptionRecord) :
                                                 PrescriptionRecord[i].type = "bool"}}

\* the shape of a record: whether it has a form, and the length n of each
\* of its nested lists
Shapes == [form : BOOLEAN, n : 0..MaxList]

Bare == [form |-> FALSE, n |-> 0]

\* the <prescription> element number k of a document
PrescriptionElement(k, cod_nacion, flags, shape) ==
  [fields |->
     [t \in Tags(PrescriptionRecord) |->
        LET f == Field(PrescriptionRecord, t) IN
        CASE t = "cod_nacion" -> Some(cod_nacion)
          [] t # "cod_nacion" /\ f.type = "String" -> Some("TEST")
          [] f.type = "Option" -> IF Odd(k) THEN Some(Nth(k)) ELSE None
          [] f.type = "bool" -> flags[t]],
   formasfarmaceuticas |-> IF shape.form THEN Some(FormElement(shape.n)) ELSE None,
   atc |-> [a \in 1..shape.n |-> AtcElement(a, shape.n)],
   problemassuministro |-> Elements(SupplyProblem, shape.n)]

XmlFile(records) == [kind |-> "xml", records |-> records]

\* documents whose first record is of any shape and whose later records
\* are of any one shape, with every flag "0"; the records carry distinct
\* national codes or all the same one
ShapeDocs ==
  { XmlFile([k \in 1..n |->
       PrescriptionElement(k, IF distinct THEN CodNacion[k] ELSE CodNacion[1],
                           [t \in FlagTags |-> Some("0")],
                           IF k = 1 THEN first ELSE rest)]) :
      n \in 0..MaxRecords, first \in Shapes, rest \in Shapes, distinct \in BOOLEAN }

\* what a flag element may hold, or be missing
FlagValues == {None, Some("0"), Some("1"), Some("2"), Some(""), Some("true")}

\* documents of bare records whose flags all hold the same valid value but
\* one flag of one record
FlagDocs ==
  { XmlFile([k \in 1..n |->
       PrescriptionElement(k, CodNacion[k],
                           [t \in FlagTags |-> IF k = r /\ t = flag THEN v ELSE Some(base)],
                           Bare)]) :
      n \in 1..MaxRecords, r \in 1..MaxRecords, flag \in FlagTags, v \in FlagValues,
      base \in {"0", "1"} }

\* a path that does not open and a file that is not XML
NoDocs == {[kind |-> "absent", records |-> << >>], [kind |-> "malformed", records |-> << >>]}

PrescriptionDocs == ShapeDocs \cup FlagDocs \cup NoDocs

(***************************************************************************)
(* CSV rows.  A row is the sequence of its fields; `kind` and `src` are    *)
(* kept beside it to tell what wrote it: a header or a record, and the     *)
(* indexes (record, nested element, ...) of the element it was written     *)
(* for.  `old` is what an earlier run left in a file.                      *)
(***************************************************************************)
Row(kind, src, fields) == [kind |-> kind, src |-> src, fields |-> fields]

OldRow == Row("old", << >>, <<"old">>)

\* how the csv serializer writes a scalar field
csv_field(type, value) ==
  CASE type = "String" -> value
    [] type = "Option" -> unwrap_or(value, "")
    [] type = "bool" -> IF value THEN "true" ELSE "false"
    [] type = "i32" -> to_string(value)

\* a header of the tags of the XML elements
serialize_header_Tags(struct) == [i \in 1..Len(struct) |-> struct[i].tag]

\* Writer::serialize on a struct: the header it writes first, and the record
serialize_header(struct) == [i \in 1..Len(struct) |-> struct[i].name]

\* a serialize that writes no column for an optional field that is None
serialize_SkipNone(struct, record) ==
  LET present == SelectSeq([i \in 1..Len(struct) |-> i],
                           LAMBDA i : ~(struct[i].type = "Option"
                                        /\ record[struct[i].name] = None))
  IN  [j \in 1..Len(present) |->
         csv_field(struct[present[j]].type, record[struct[present[j]].name])]

serialize(struct, record) ==
  [i \in 1..Len(struct) |-> csv_field(struct[i].type, record[struct[i].name])]

\* lines 602-607
form_row(prescription_id, form) ==
  <<prescription_id, form.form_code, form.simplified_form_code,
    unwrap_or(form.num_active_ingredients, "")>>

\* lines 611-623
ingredient_row(prescription_id, ingredient) ==
  <<prescription_id,
    unwrap_or(ingredient.active_ingredient_code, ""),
    unwrap_or(ingredient.order, ""),
    unwrap_or(ingredient.dose, ""),
    unwrap_or(ingredient.dose_unit, ""),
    unwrap_or(ingredient.composition_dose, ""),
    unwrap_or(ingredient.composition_unit, ""),
    unwrap_or(ingredient.administration_dose, ""),
    unwrap_or(ingredient.administration_unit, ""),
    unwrap_or(ingredient.prescription_dose, ""),
    unwrap_or(ingredient.prescription_unit, "")>>

\* line 628
route_row(prescription_id, route) == <<prescription_id, route.route_code>>

\* line 634
atc_row(prescription_id, atc) == <<prescription_id, atc.atc_code>>

\* duplicate_row with the duplicate's own code in the place of its parent's
duplicate_row_OwnCode(prescription_id, atc, duplicate) ==
  <<prescription_id, duplicate.duplicate_atc, duplicate.duplicate_atc,
    unwrap_or(duplicate.description, ""),
    unwrap_or(duplicate.effect, ""),
    unwrap_or(duplicate.recommendation, "")>>

\* lines 638-645
duplicate_row(prescription_id, atc, duplicate) ==
  <<prescription_id, atc.atc_code, duplicate.duplicate_atc,
    unwrap_or(duplicate.description, ""),
    unwrap_or(duplicate.effect, ""),
    unwrap_or(duplicate.recommendation, "")>>

\* supply_row that leaves out the values the problem does not have
supply_row_Omit(prescription_id, supply) ==
  <<prescription_id>> \o supply.start_date \o supply.observations

\* lines 651-655
supply_row(prescription_id, supply) ==
  <<prescription_id, unwrap_or(supply.start_date, ""),
    unwrap_or(supply.observations, "")>>

(***************************************************************************)
(* parse_prescription_xml_to_csvs(xml_path, output_dir), lines 569-669.    *)
(* The writes of the pass, in the order the loops of lines 592-657 make    *)
(* them: which writer, and the row.  `plan` holds them from the moment the *)
(* document is deserialized; `at` counts those made.                       *)
(***************************************************************************)
wtr_main == PrescriptionCsvs[1]
wtr_forms == PrescriptionCsvs[2]
wtr_ingredients == PrescriptionCsvs[3]
wtr_routes == PrescriptionCsvs[4]
wtr_atc == PrescriptionCsvs[5]
wtr_atc_duplicates == PrescriptionCsvs[6]
wtr_supply == PrescriptionCsvs[7]

ChildTables == {PrescriptionCsvs[i] : i \in 2..Len(PrescriptionCsvs)}

Write(wtr, src, fields) == [wtr |-> wtr, row |-> Row("record", src, fields)]

\* lines 600-630: the form of record i, its ingredients, then its routes
FormWrites(i, prescription_id, forms) ==
  IF forms = None THEN << >>
  ELSE LET form == forms[1] IN
       <<Write(wtr_forms, <<i>>, form_row(prescription_id, form))>>
       \o [j \in 1..Len(form.active_ingredients) |->
             Write(wtr_ingredients, <<i, j>>,
                   ingredient_row(prescription_id, form.active_ingredients[j]))]
       \o [j \in 1..Len(form.admin_routes) |->
             Write(wtr_routes, <<i, j>>, route_row(prescription_id, form.admin_routes[j]))]

\* AtcWrites that leaves out a duplicate already written for an earlier ATC
\* assignment of the record
RECURSIVE AtcWrites_Dedup(_, _, _, _)
AtcWrites_Dedup(i, prescription_id, atc_codes, a) ==
  IF a > Len(atc_codes) THEN << >>
  ELSE LET atc == atc_codes[a]
           seen == UNION {{atc_codes[b].duplicates[d].duplicate_atc :
                             d \in 1..Len(atc_codes[b].duplicates)} : b \in 1..(a - 1)}
           fresh == SelectSeq(atc.duplicates, LAMBDA x : x.duplicate_atc \notin seen)
       IN  <<Write(wtr_atc, <<i, a>>, atc_row(prescription_id, atc))>>
           \o [d \in 1..Len(fresh) |->
                 Write(wtr_atc_duplicates, <<i, a, d>>,
                       duplicate_row(prescription_id, atc, fresh[d]))]
           \o AtcWrites_Dedup(i, prescription_id, atc_codes, a + 1)

\* lines 633-647: ATC assignments a.. of record i, each followed by its duplicates
RECURSIVE AtcWrites(_, _, _, _)
AtcWrites(i, prescription_id, atc_codes, a) ==
  IF a > Len(atc_codes) THEN << >>
  ELSE LET atc == atc_codes[a] IN
       <<Write(wtr_atc, <<i, a>>, atc_row(prescription_id, atc))>>
       \o [d \in 1..Len(atc.duplicates) |->
             Write(wtr_atc_duplicates, <<i, a, d>>,
                   duplicate_row(prescription_id, atc, atc.duplicates[d]))]
       \o AtcWrites(i, prescription_id, atc_codes, a + 1)

\* lines 650-656
SupplyWrites(i, prescription_id, supply_problems) ==
  [p \in 1..Len(supply_problems) |->
     Write(wtr_supply, <<i, p>>, supply_row(prescription_id, supply_problems[p]))]

\* lines 593-656: the body of the loop for record i
\* a main row that carries the form code of a record that has a form
RecordWrites_Nested(i, record) ==
  LET prescription_id == record.cod_nacion IN
  <<Write(wtr_main, <<i>>,
          serialize(PrescriptionRecord, record)
            \o (IF record.forms = None THEN << >> ELSE <<record.forms[1].form_code>>))>>
  \o FormWrites(i, prescription_id, record.forms)
  \o AtcWrites(i, prescription_id, record.atc_codes, 1)
  \o SupplyWrites(i, prescription_id, record.supply_problems)

RecordWrites(i, record) ==
  LET prescription_id == record.cod_nacion IN
  <<Write(wtr_main, <<i>>, serialize(PrescriptionRecord, record))>>
  \o FormWrites(i, prescription_id, record.forms)
  \o AtcWrites(i, prescription_id, record.atc_codes, 1)
  \o SupplyWrites(i, prescription_id, record.supply_problems)

\* line 592: the loop over list.records, from record i on
RECURSIVE Pass(_, _)
Pass(records, i) ==
  IF i > Len(records) THEN << >>
  ELSE RecordWrites(i, records[i]) \o Pass(records, i + 1)

\* the variables of the orchestrator and the fetcher, which no parser touches
pipelineVars ==
  <<pc, concurrency, work_dir, remote, out0, fsVars, fetchVars, calls, entry, rets,
    jobVars, prescription_result, summary, outcome>>

\* a buffer large enough for all the rows a document of the bounds has
WholeDocument == 1 + MaxRecords * (1 + MaxList * MaxList)

\* the outputs as a call finds them: none there, or all left by an earlier run
OutputsFound(paths) ==
  { [p \in paths |-> [exists |-> old, rows |-> IF old THEN <<OldRow>> ELSE << >>]] :
      old \in BOOLEAN }

NoWriters(paths) == [p \in paths |-> [open |-> FALSE, header |-> FALSE, buf |-> << >>]]

\* a direct call of parse_prescription_xml_to_csvs, as the test of lines
\* 1240-1317 makes.  Either a writer holds one row, so that every later write
\* sends the row before to the file, or it holds the whole document.
InitPrescription ==
  /\ pc = "parser" /\ work_dir = "nomenclator_data"
  /\ remote = NoFiles /\ dirExists = TRUE /\ listable = TRUE /\ disk = NoFiles
  /\ extra = FALSE /\ out = [c \in CsvFiles |-> "absent"] /\ out0 = out
  /\ InitRest
  /\ ppc = "open"
  /\ xml \in PrescriptionDocs
  /\ list = [records |-> << >>]
  /\ files \in OutputsFound(ChildTables \cup {wtr_main})
  /\ files0 = files
  /\ rows_per_buffer \in {1, WholeDocument}
  /\ wtrs = NoWriters(DOMAIN files)
  /\ plan = << >> /\ at = 0 /\ flushed = << >> /\ parseRet = RetNone
  /\ fn_name = "parse_prescription_xml_to_csvs" /\ mut_record = << >>

\* line 570: File::open(xml_path)?
Open ==
  /\ ppc = "open"
  /\ IF xml.kind = "absent"
     THEN ppc' = "done" /\ parseRet' = RetErr("No such file or directory")
     ELSE ppc' = "deserialize" /\ UNCHANGED parseRet
  /\ UNCHANGED <<pipelineVars, callVars, plan, xml, list, files, files0, rows_per_buffer, wtrs, at,
                 flushed>>

\* Deserialize with the writers created before the document is read
Deserialize_CreateFirst ==
  /\ ppc = "deserialize"
  /\ LET r == from_reader_prescription(xml) IN
     IF r.tag = "Ok"
     THEN /\ list' = r.value /\ plan' = Pass(r.value.records, 1)
          /\ ppc' = "create" /\ UNCHANGED <<parseRet, files>>
     ELSE /\ ppc' = "done" /\ parseRet' = r /\ UNCHANGED <<list, plan>>
          /\ files' = [p \in DOMAIN files |-> [exists |-> TRUE, rows |-> << >>]]
  /\ UNCHANGED <<pipelineVars, callVars, xml, files0, rows_per_buffer, wtrs, at, flushed>>

\* lines 571-574: from_reader(reader).context(..)?
Deserialize ==
  /\ ppc = "deserialize"
  /\ LET r == from_reader_prescription(xml) IN
     IF r.tag = "Ok"
     THEN /\ list' = r.value /\ plan' = Pass(r.value.records, 1)
          /\ ppc' = "create" /\ UNCHANGED parseRet
     ELSE ppc' = "done" /\ parseRet' = r /\ UNCHANGED <<list, plan>>
  /\ UNCHANGED <<pipelineVars, callVars, xml, files, files0, rows_per_buffer, wtrs, at, flushed>>

\* csv::Writer::from_path: File::create, which truncates
from_path(p) ==
  \E ok \in BOOLEAN :
    IF ok
    THEN /\ files' = [files EXCEPT ![p] = [exists |-> TRUE, rows |-> << >>]]
         /\ wtrs' = [wtrs EXCEPT ![p].open = TRUE]
         /\ UNCHANGED parseRet
    ELSE /\ parseRet' = RetErr("File::create failed")
         /\ UNCHANGED <<files, wtrs>>

Created == {i \in 1..Len(PrescriptionCsvs) : wtrs[PrescriptionCsvs[i]].open}

\* lines 576-589: the 7 writers, one from_path(..)? after the other
CreateWriter ==
  /\ ppc = "create"
  /\ LET i == Cardinality(Created) + 1 IN
     /\ from_path(PrescriptionCsvs[i])
     /\ ppc' = IF parseRet'.tag = "Err" THEN "drop"
               ELSE IF i = Len(PrescriptionCsvs) THEN "pass" ELSE "create"
  /\ UNCHANGED <<pipelineVars, callVars, plan, xml, list, files0, rows_per_buffer, at, flushed>>

\* the writer's buffer has no room for one more row
Full(w) == Len(w.buf) >= rows_per_buffer

\* what a writer does with its buffer when it writes it out: to the end of
\* the file
flush_buf_Prepend(file, w) == [file EXCEPT !.rows = w.buf \o @]

flush_buf(file, w) == [file EXCEPT !.rows = @ \o w.buf]

\* Put whose failed write leaves the row in the buffer of the writer
Put_KeepRow(p, row, header) ==
  LET w == wtrs[p] IN
  IF ~Full(w)
  THEN /\ wtrs' = [wtrs EXCEPT ![p].buf = Append(@, row),
                               ![p].header = @ \/ header]
       /\ at' = IF header THEN at ELSE at + 1
       /\ UNCHANGED <<files, ppc, parseRet>>
  ELSE \E ok \in BOOLEAN :
         IF ok
         THEN /\ files' = [files EXCEPT ![p] = flush_buf(@, w)]
              /\ wtrs' = [wtrs EXCEPT ![p].buf = <<row>>, ![p].header = @ \/ header]
              /\ at' = IF header THEN at ELSE at + 1
              /\ UNCHANGED <<ppc, parseRet>>
         ELSE /\ ppc' = "drop" /\ parseRet' = RetErr("write failed")
              /\ wtrs' = [wtrs EXCEPT ![p].buf = Append(@, row)]
              /\ UNCHANGED <<files, at>>

\* One row through the writer p: into the buffer when there is room;
\* otherwise the buffer goes to the file first, which can fail, and the
\* error then leaves the function through `?`.  `header` tells the header
\* row of serialize from the record that follows it.
Put(p, row, header) ==
  LET w == wtrs[p] IN
  IF ~Full(w)
  THEN /\ wtrs' = [wtrs EXCEPT ![p].buf = Append(@, row),
                               ![p].header = @ \/ header]
       /\ at' = IF header THEN at ELSE at + 1
       /\ UNCHANGED <<files, ppc, parseRet>>
  ELSE \E ok \in BOOLEAN :
         IF ok
         THEN /\ files' = [files EXCEPT ![p] = flush_buf(@, w)]
              /\ wtrs' = [wtrs EXCEPT ![p].buf = <<row>>, ![p].header = @ \/ header]
              /\ at' = IF header THEN at ELSE at + 1
              /\ UNCHANGED <<ppc, parseRet>>
         ELSE /\ ppc' = "drop" /\ parseRet' = RetErr("write failed")
              /\ UNCHANGED <<files, wtrs, at>>

\* the pass is at a write through the writer p
Writing(p) == ppc = "pass" /\ at < Len(plan) /\ plan[at + 1].wtr = p

\* line 597, first record: serialize writes the names of the fields first
SerializeHeader ==
  /\ Writing(wtr_main) /\ ~wtrs[wtr_main].header
  /\ Put(wtr_main, Row("header", << >>, serialize_header(PrescriptionRecord)), TRUE)
  /\ UNCHANGED <<pipelineVars, callVars, plan, xml, list, files0, rows_per_buffer, flushed>>

\* line 597: wtr_main.serialize(&record)?
WriteMain ==
  /\ Writing(wtr_main) /\ wtrs[wtr_main].header
  /\ Put(wtr_main, plan[at + 1].row, FALSE)
  /\ UNCHANGED <<pipelineVars, callVars, plan, xml, list, files0, rows_per_buffer, flushed>>

\* lines 602-607: wtr_forms.write_record(..)?
WriteForm ==
  /\ Writing(wtr_forms)
  /\ Put(wtr_forms, plan[at + 1].row, FALSE)
  /\ UNCHANGED <<pipelineVars, callVars, plan, xml, list, files0, rows_per_buffer, flushed>>

\* lines 611-623: wtr_ingredients.write_record(..)?
WriteIngredient ==
  /\ Writing(wtr_ingredients)
  /\ Put(wtr_ingredients, plan[at + 1].row, FALSE)
  /\ UNCHANGED <<pipelineVars, callVars, plan, xml, list, files0, rows_per_buffer, flushed>>

\* line 628: wtr_routes.write_record(..)?
WriteRoute ==
  /\ Writing(wtr_routes)
  /\ Put(wtr_routes, plan[at + 1].row, FALSE)
  /\ UNCHANGED <<pipelineVars, callVars, plan, xml, list, files0, rows_per_buffer, flushed>>

\* line 634: wtr_atc.write_record(..)?
WriteAtc ==
  /\ Writing(wtr_atc)
  /\ Put(wtr_atc, plan[at + 1].row, FALSE)
  /\ UNCHANGED <<pipelineVars, callVars, plan, xml, list, files0, rows_per_buffer, flushed>>

\* lines 638-645: wtr_atc_duplicates.write_record(..)?
WriteDuplicate ==
  /\ Writing(wtr_atc_duplicates)
  /\ Put(wtr_atc_duplicates, plan[at + 1].row, FALSE)
  /\ UNCHANGED <<pipelineVars, callVars, plan, xml, list, files0, rows_per_buffer, flushed>>

\* lines 651-655: wtr_supply.write_record(..)?
WriteSupply ==
  /\ Writing(wtr_supply)
  /\ Put(wtr_supply, plan[at + 1].row, FALSE)
  /\ UNCHANGED <<pipelineVars, callVars, plan, xml, list, files0, rows_per_buffer, flushed>>

\* the loop of lines 592-657 is over
PassDone == ppc = "pass" /\ at = Len(plan)

\* Flush at any point of the pass
Flush_Early ==
  /\ ppc = "pass" /\ Len(flushed) < Len(PrescriptionCsvs)
  /\ LET p == PrescriptionCsvs[Len(flushed) + 1] IN
     \E ok \in BOOLEAN :
       IF ok
       THEN /\ files' = [files EXCEPT ![p] = flush_buf(@, wtrs[p])]
            /\ wtrs' = [wtrs EXCEPT ![p].buf = << >>]
            /\ flushed' = Append(flushed, p)
            /\ UNCHANGED <<ppc, parseRet>>
       ELSE /\ ppc' = "drop" /\ parseRet' = RetErr("flush failed")
            /\ UNCHANGED <<files, wtrs, flushed>>
  /\ UNCHANGED <<pipelineVars, callVars, plan, xml, list, files0, rows_per_buffer, at>>

\* lines 660-666: the 7 flush()? after the loop, in the order of creation
Flush ==
  /\ PassDone /\ Len(flushed) < Len(PrescriptionCsvs)
  /\ LET p == PrescriptionCsvs[Len(flushed) + 1] IN
     \E ok \in BOOLEAN :
       IF ok
       THEN /\ files' = [files EXCEPT ![p] = flush_buf(@, wtrs[p])]
            /\ wtrs' = [wtrs EXCEPT ![p].buf = << >>]
            /\ flushed' = Append(flushed, p)
            /\ UNCHANGED <<ppc, parseRet>>
       ELSE /\ ppc' = "drop" /\ parseRet' = RetErr("flush failed")
            /\ UNCHANGED <<files, wtrs, flushed>>
  /\ UNCHANGED <<pipelineVars, callVars, plan, xml, list, files0, rows_per_buffer, at>>

\* line 668: Ok(())
ReturnOk ==
  /\ PassDone /\ Len(flushed) = Len(PrescriptionCsvs)
  /\ ppc' = "drop" /\ parseRet' = Ok("()")
  /\ UNCHANGED <<pipelineVars, callVars, plan, xml, list, files, files0, rows_per_buffer, wtrs, at,
                 flushed>>

\* The writers go out of scope, on Ok(()) as on every `?`: a csv::Writer
\* that is dropped writes its buffer out and ignores the outcome.
Drop ==
  /\ ppc = "drop"
  /\ \E ok \in BOOLEAN :
       files' = [p \in DOMAIN files |->
                   IF ok /\ wtrs[p].open THEN flush_buf(files[p], wtrs[p]) ELSE files[p]]
  /\ wtrs' = [p \in DOMAIN wtrs |-> [wtrs[p] EXCEPT !.open = FALSE, !.buf = << >>]]
  /\ ppc' = "done"
  /\ UNCHANGED <<pipelineVars, callVars, plan, xml, list, files0, rows_per_buffer, at, flushed, parseRet>>

NextPrescription ==
  \/ Open \/ Deserialize \/ CreateWriter
  \/ SerializeHeader \/ WriteMain \/ WriteForm \/ WriteIngredient \/ WriteRoute
  \/ WriteAtc \/ WriteDuplicate \/ WriteSupply
  \/ Flush \/ ReturnOk \/ Drop

PrescriptionSpec == InitPrescription /\ [][NextPrescription]_vars

(***************************************************************************)
(* Claims about parse_prescription_xml_to_csvs, under PrescriptionSpec.    *)
(***************************************************************************)
\* the document given to the call does not deserialize: it is not XML of
\* the schema, or one of its records is refused (a flag that is neither "0"
\* nor "1", a missing field)
DeserializeFails == xml.kind # "absent" /\ from_reader_prescription(xml).tag = "Err"

\* the call has returned and its writers are gone
Finished == ppc = "done"

\* C12: when the prescription document fails to deserialize, the call
\* returns an error and the 7 output files are exactly as it found them
\* (none created, none truncated, none written): up to the deserialization
\* no file is touched and no writer is open, and a failed deserialization
\* ends the call at once.
C12_ParseBeforeWrite ==
  /\ [](ppc \in {"open", "deserialize"} =>
          files = files0 /\ \A p \in DOMAIN wtrs : ~wtrs[p].open)
  /\ [][ppc = "deserialize" /\ DeserializeFails => Finished']_vars
  /\ [](Finished /\ DeserializeFails => files = files0 /\ parseRet.tag = "Err")

\* a record with a bad flag, the files of an earlier run in place, the call over
C12_Witness ==
  /\ Finished /\ xml.kind = "xml" /\ DeserializeFails
  /\ \E r \in 1..Len(xml.records), t \in FlagTags : xml.records[r].fields[t] = Some("2")
  /\ \A p \in DOMAIN files : files[p].exists /\ files[p].rows = <<OldRow>>

\* the call has returned Ok(())
Succeeded == Finished /\ parseRet.tag = "Ok"

\* the rows of the output file p that were written for records or sub-records
Records(p) == SelectSeq(files[p].rows, LAMBDA r : r.kind = "record")

RECURSIVE Sum(_)
Sum(s) == IF s = << >> THEN 0 ELSE Head(s) + Sum(Tail(s))

\* the total of n(e) over the <prescription> elements e of the document
Count(n(_)) == Sum([k \in 1..Len(xml.records) |-> n(xml.records[k])])

HasForm(e) == e.formasfarmaceuticas # None

\* C13: after a successful call each table holds exactly one record row per
\* item of the source document: main one per <prescription>, forms one per
\* prescription with a form, ingredients and routes one per nested element
\* of the forms, atc one per ATC assignment, duplicates one per (assignment,
\* duplicate) pair, supply one per supply problem; and no row of an earlier
\* run is left.
C13_RowCounts ==
  Succeeded =>
    /\ Len(Records(wtr_main)) = Len(xml.records)
    /\ Len(Records(wtr_forms)) = Count(LAMBDA e : IF HasForm(e) THEN 1 ELSE 0)
    /\ Len(Records(wtr_ingredients)) =
         Count(LAMBDA e : IF HasForm(e) THEN Len(e.formasfarmaceuticas[1].composicion_pa)
                          ELSE 0)
    /\ Len(Records(wtr_routes)) =
         Count(LAMBDA e : IF HasForm(e)
                          THEN Len(e.formasfarmaceuticas[1].viasadministracion) ELSE 0)
    /\ Len(Records(wtr_atc)) = Count(LAMBDA e : Len(e.atc))
    /\ Len(Records(wtr_atc_duplicates)) =
         Count(LAMBDA e : Sum([a \in 1..Len(e.atc) |-> Len(e.atc[a].duplicidades)]))
    /\ Len(Records(wtr_supply)) = Count(LAMBDA e : Len(e.problemassuministro))
    /\ \A p \in DOMAIN files : \A k \in 1..Len(files[p].rows) : files[p].rows[k].kind # "old"

\* a record with a form and two ATC assignments that list the same two
\* duplicates: four duplicate rows, the same duplicate code in two of them
C13_Witness ==
  /\ Succeeded
  /\ \E k \in 1..Len(xml.records) :
       /\ HasForm(xml.records[k])
       /\ Len(xml.records[k].atc) = 2
       /\ Len(xml.records[k].atc[1].duplicidades) = 2
       /\ xml.records[k].atc[1].duplicidades = xml.records[k].atc[2].duplicidades
  /\ \E x, y \in 1..Len(Records(wtr_atc_duplicates)) :
       /\ x < y
       /\ Records(wtr_atc_duplicates)[x].fields[3] = Records(wtr_atc_duplicates)[y].fields[3]
       /\ Records(wtr_atc_duplicates)[x].fields[2] # Records(wtr_atc_duplicates)[y].fields[2]

\* every row the writer of p has taken so far: those in the file and those
\* still in its buffer
Written(p) == SelectSeq(files[p].rows \o wtrs[p].buf, LAMBDA r : r.kind = "record")

\* C14: at every moment, every row written to one of the 6 child tables
\* has in its first column the cod_nacion of the record of the list it was
\* written for, and every row of the ATC-duplicates table has in its second
\* column the atc_code of the ATC assignment that holds the duplicate.
C14_ForeignKeys ==
  /\ \A p \in ChildTables : \A k \in 1..Len(Written(p)) :
       LET row == Written(p)[k] IN
         row.fields[1] = list.records[row.src[1]].cod_nacion
  /\ \A k \in 1..Len(Written(wtr_atc_duplicates)) :
       LET row == Written(wtr_atc_duplicates)[k] IN
         row.fields[2] = list.records[row.src[1]].atc_codes[row.src[2]].atc_code

\* the duplicates table holds on disk a row of the second ATC assignment of
\* the second record, whose national code and ATC code differ from those of
\* the first record and of the first assignment
C14_Witness ==
  /\ Succeeded
  /\ Len(list.records) >= 2
  /\ list.records[1].cod_nacion # list.records[2].cod_nacion
  /\ \E k \in 1..Len(Records(wtr_atc_duplicates)) :
       LET row == Records(wtr_atc_duplicates)[k] IN
         /\ row.src[1] = 2 /\ row.src[2] = 2
         /\ row.fields[1] = list.records[2].cod_nacion
         /\ row.fields[2] # list.records[2].atc_codes[1].atc_code
         /\ row.fields[2] # row.fields[3]

\* the element a row was written for comes earlier in the document: the
\* index paths (record, nested element, ...) compare lexicographically
Precedes(s, t) ==
  \E k \in 1..Len(s) : s[k] < t[k] /\ \A j \in 1..(k - 1) : s[j] = t[j]

\* C15: in the main table and in each child table the rows written so far,
\* those in the file followed by those still in the buffer, are in document
\* order: a row of an earlier record, or of an earlier element of a nested
\* list of the same record, stands before every later one; and after a
\* successful call the national codes down the main table are those of the
\* document's records in their order.
C15_DocumentOrder ==
  /\ \A p \in DOMAIN files : \A x, y \in 1..Len(Written(p)) :
       x < y => Precedes(Written(p)[x].src, Written(p)[y].src)
  /\ Succeeded =>
       [k \in 1..Len(Records(wtr_main)) |-> Records(wtr_main)[k].fields[1]]
         = [k \in 1..Len(xml.records) |-> xml.records[k].fields["cod_nacion"][1]]

\* a one-row buffer, two records with different national codes and two
\* routes each: the routes file holds the four rows, and every row but the
\* last reached it when the next one was written
C15_Witness ==
  /\ Succeeded /\ rows_per_buffer = 1
  /\ Len(list.records) = 2
  /\ list.records[1].cod_nacion # list.records[2].cod_nacion
  /\ [k \in 1..Len(Records(wtr_routes)) |-> Records(wtr_routes)[k].src]
       = <<<<1, 1>>, <<1, 2>>, <<2, 1>>, <<2, 2>>>>

\* the file of p holds a row that a writer of this call sent to it
Reached(p) == \E k \in 1..Len(files[p].rows) : files[p].rows[k].kind # "old"

\* the pass over all records has completed without error
PassCompleted == ppc \in {"pass", "drop", "done"} /\ at = Len(plan)

\* C16 as stated: no writer's rows go to its file before the pass over all
\* records has completed successfully, and none when the pass ends early
\* with a write error.
C16_Claimed == \A p \in DOMAIN files : Reached(p) => PassCompleted

\* C16, amended: the explicit flush() of a writer is called only after the
\* pass has completed without error, and never when the pass ends early
\* with a write error; while the pass is running a file changes only when
\* a write finds the buffer of its writer full.
C16_FlushAfterPass ==
  /\ [][flushed' # flushed => PassDone /\ parseRet = RetNone]_vars
  /\ [](flushed # << >> => PassCompleted)
  /\ [](parseRet = RetErr("write failed") => flushed = << >> /\ at < Len(plan))
  /\ [][ppc = "pass" /\ ~PassDone /\ files' # files =>
          \E p \in DOMAIN wtrs : Full(wtrs[p]) /\ files'[p] # files[p]]_vars

\* the pass ended early with a write error and no flush() was called, yet
\* rows are in a file
C16_Witness ==
  /\ Finished /\ parseRet = RetErr("write failed")
  /\ at < Len(plan) /\ flushed = << >>
  /\ \E p \in DOMAIN files : Reached(p)

\* C17: every file a successful call has produced begins with a header row,
\* and all its other rows are the rows of records or sub-records.
C17_HeaderRow ==
  Succeeded =>
    \A p \in DOMAIN files :
      /\ files[p].rows # << >>
      /\ files[p].rows[1].kind = "header"
      /\ \A k \in 2..Len(files[p].rows) : files[p].rows[k].kind = "record"

\* the flag fields of PrescriptionRecord
Flags == {i \in 1..Len(PrescriptionRecord) : PrescriptionRecord[i].type = "bool"}

\* the text of the flag i in the <prescription> element r of the document,
\* None when the element has no such child
FlagText(r, i) == xml.records[r].fields[PrescriptionRecord[i].tag]

BadFlag(r, i) == FlagText(r, i) \notin {Some("0"), Some("1")}

\* C20: every flag of every deserialized record is true when its element
\* holds "1" and false when it holds "0"; a document in which any flag of
\* any record holds anything else is never deserialized into records: no
\* record list exists, no output file is touched, and the call ends with an
\* error.
C20_FlagParsing ==
  /\ \A r \in 1..Len(list.records) : \A i \in Flags :
       /\ FlagText(r, i) = Some("1") => list.records[r][PrescriptionRecord[i].name] = TRUE
       /\ FlagText(r, i) = Some("0") => list.records[r][PrescriptionRecord[i].name] = FALSE
  /\ (\E r \in 1..Len(xml.records) : \E i \in Flags : BadFlag(r, i)) =>
       /\ list.records = << >> /\ files = files0
       /\ ppc \in {"open", "deserialize", "done"}
       /\ Finished => parseRet.tag = "Err"

\* the call is over for a document whose first record has every flag "1"
\* and whose second record has one flag that holds "true"
C20_Witness ==
  /\ Finished /\ parseRet.tag = "Err" /\ Len(xml.records) = 2
  /\ \A i \in Flags : FlagText(1, i) = Some("1")
  /\ \E i \in Flags : FlagText(2, i) = Some("true")

(***************************************************************************)
(* The 13 catalog parsers of impl_xml_parser! (lines 414-448, instances at *)
(* lines 450-547).  A record struct is the sequence of its fields in       *)
(* declaration order: the field name, which the CSV header takes, the tag  *)
(* of rename(deserialize = ..), and the type.                              *)
(***************************************************************************)
\* lines 28-36
AtcRecord ==
  << [name |-> "number", tag |-> "nroatc", type |-> "i32"],
     [name |-> "code", tag |-> "codigoatc", type |-> "String"],
     [name |-> "description", tag |-> "descatc", type |-> "String"] >>

\* lines 45-53
DcpRecord ==
  << [name |-> "code", tag |-> "codigodcp", type |-> "String"],
     [name |-> "name", tag |-> "nombredcp", type |-> "String"],
     [name |-> "dcsa_code", tag |-> "codigodcsa", type |-> "String"] >>

\* lines 61-69
DcpfRecord ==
  << [name |-> "code", tag |-> "codigodcpf", type |-> "String"],
     [name |-> "name", tag |-> "nombredcpf", type |-> "String"],
     [name |-> "dcp_code", tag |-> "codigodcp", type |-> "String"] >>

\* lines 78-84
DcsaRecord ==
  << [name |-> "code", tag |-> "codigodcsa", type |-> "String"],
     [name |-> "name", tag |-> "nombredcsa", type |-> "String"] >>

\* lines 93-99
ContainerRecord ==
  << [name |-> "code", tag |-> "codigoenvase", type |-> "String"],
     [name |-> "name", tag |-> "envase", type |-> "String"] >>

\* lines 107-113
ExcipientRecord ==
  << [name |-> "code", tag |-> "codigoedo", type |-> "String"],
     [name |-> "name", tag |-> "edo", type |-> "String"] >>

\* lines 122-130
PharmaceuticalFormRecord ==
  << [name |-> "code", tag |-> "codigoformafarmaceutica", type |-> "String"],
     [name |-> "name", tag |-> "formafarmaceutica", type |-> "String"],
     [name |-> "simplified_code", tag |-> "codigoformafarmaceuticasimplificada", type |-> "String"] >>

\* lines 139-145
SimplifiedPharmaceuticalFormRecord ==
  << [name |-> "code", tag |-> "codigoformafarmaceuticasimplificada", type |-> "String"],
     [name |-> "name", tag |-> "formafarmaceuticasimplificada", type |-> "String"] >>

\* lines 154-168
LaboratoryRecord ==
  << [name |-> "code", tag |-> "codigolaboratorio", type |-> "String"],
     [name |-> "name", tag |-> "laboratorio", type |-> "String"],
     [name |-> "address", tag |-> "direccion", type |-> "Option"],
     [name |-> "zip", tag |-> "codigopostal", type |-> "Option"],
     [name |-> "city", tag |-> "localidad", type |-> "Option"],
     [name |-> "vat", tag |-> "cif", type |-> "Option"] >>

\* lines 177-185
ActiveIngridientRecord ==
  << [name |-> "number", tag |-> "nroprincipioactivo", type |-> "String"],
     [name |-> "code", tag |-> "codigoprincipioactivo", type |-> "String"],
     [name |-> "name", tag |-> "principioactivo", type |-> "String"] >>

\* lines 194-200
RegistrationStatusRecord ==
  << [name |-> "code", tag |-> "codigosituacionregistro", type |-> "String"],
     [name |-> "name", tag |-> "situacionregistro", type |-> "String"] >>

\* lines 209-215
ContainerUnitRecord ==
  << [name |-> "code", tag |-> "codigounidadcontenido", type |-> "String"],
     [name |-> "name", tag |-> "unidadcontenido", type |-> "String"] >>

\* lines 224-230
AdministrationRouteRecord ==
  << [name |-> "code", tag |-> "codigoviaadministracion", type |-> "String"],
     [name |-> "name", tag |-> "viaadministracion", type |-> "String"] >>

\* the instances of the macro, in the order of `mapping`: the function, the
\* record struct of its list type and the context of its deserialization error
parsers ==
  << [fn_name |-> "parse_atc_xml_to_csv",
      record |-> AtcRecord,
      error_ctx |-> "Failed to deserialize ATC XML"],
     [fn_name |-> "parse_dcp_xml_to_csv",
      record |-> DcpRecord,
      error_ctx |-> "Failed to deserialize DCP XML"],
     [fn_name |-> "parse_dcpf_xml_to_csv",
      record |-> DcpfRecord,
      error_ctx |-> "Failed to deserialize DCPF XML"],
     [fn_name |-> "parse_dcsa_xml_to_csv",
      record |-> DcsaRecord,
      error_ctx |-> "Failed to deserialize DCSA XML"],
     [fn_name |-> "parse_envases_xml_to_csv",
      record |-> ContainerRecord,
      error_ctx |-> "Failed to deserialize Envases XML"],
     [fn_name |-> "parse_excipientes_xml_to_csv",
      record |-> ExcipientRecord,
      error_ctx |-> "Failed to deserialize Excipientes XML"],
     [fn_name |-> "parse_forma_farmaceutica_xml_to_csv",
      record |-> PharmaceuticalFormRecord,
      error_ctx |-> "Failed to deserialize Forma Farmaceutica XML"],
     [fn_name |-> "parse_forma_farmaceutica_simplificada_xml_to_csv",
      record |-> SimplifiedPharmaceuticalFormRecord,
      error_ctx |-> "Failed to deserialize Forma Farmaceutica Simplificada XML"],
     [fn_name |-> "parse_laboratorio_xml_to_csv",
      record |-> LaboratoryRecord,
      error_ctx |-> "Failed to deserialize Laboratorio XML"],
     [fn_name |-> "parse_principio_activo_xml_to_csv",
      record |-> ActiveIngridientRecord,
      error_ctx |-> "Failed to deserialize Principio Activo XML"],
     [fn_name |-> "parse_situacion_registro_xml_to_csv",
      record |-> RegistrationStatusRecord,
      error_ctx |-> "Failed to deserialize Situacion Registro XML"],
     [fn_name |-> "parse_unidad_contenido_xml_to_csv",
      record |-> ContainerUnitRecord,
      error_ctx |-> "Failed to deserialize Unidad Contenido XML"],
     [fn_name |-> "parse_via_administracion_xml_to_csv",
      record |-> AdministrationRouteRecord,
      error_ctx |-> "Failed to deserialize Via Administracion XML"] >>

\* the instance of the macro a function name stands for, and what it works on
JobOf(name) == CHOOSE j \in Jobs : parsers[j].fn_name = name
RecordOf(name) == parsers[JobOf(name)].record
csv_path == mapping[JobOf(fn_name)].csv

\* str::starts_with
starts_with(s, prefix) == Len(s) >= Len(prefix) /\ SubSeq(s, 1, Len(prefix)) = prefix

\* format!("{} - ", record.code)
Prefix(code) == code \o <<" ", "-", " ">>

\* a transform that strips the prefix as often as it stands at the front
RECURSIVE transform_StripAll(_)
transform_StripAll(atc) ==
  IF starts_with(atc.description, Prefix(atc.code))
  THEN transform_StripAll(
         [atc EXCEPT !.description = SubSeq(@, Len(Prefix(atc.code)) + 1, Len(@))])
  ELSE atc

\* lines 456-462: the $transform block of parse_atc_xml_to_csv
transform(atc) ==
  IF starts_with(atc.description, Prefix(atc.code))
  THEN [atc EXCEPT !.description = SubSeq(@, Len(Prefix(atc.code)) + 1, Len(@))]
  ELSE atc

\* lines 422-425 and 438-442: the first arm of the macro has no $transform
Transformed(name, rec) == IF name = "parse_atc_xml_to_csv" THEN transform(rec) ELSE rec

\* line 420 and 436: from_reader into the list type, with the context
from_reader_catalog(name, file) ==
  IF file.kind # "xml" THEN RetErr(parsers[JobOf(name)].error_ctx)
  ELSE LET r == list_of(deserialize_vec(RecordOf(name), file.records))
       IN  IF r.tag = "Ok" THEN r ELSE RetErr(parsers[JobOf(name)].error_ctx)

(***************************************************************************)
(* The catalog documents explored.  A text is a sequence of characters.    *)
(***************************************************************************)
MaxTextLen == 2

Alphabet == {"A", "D", " ", "-"}

Texts == UNION {[1..k -> Alphabet] : k \in 0..MaxTextLen}

\* the text of field i of the k-th record of a catalog
CatalogText(k, i) == <<Nth(k), Nth(i)>>

\* the k-th record element of a catalog: its optional children present or
\* not, and the child of field `missing` left out (0: none)
CatalogElement(struct, k, optional, missing) ==
  [t \in Tags(struct) |->
     LET i == CHOOSE i \in 1..Len(struct) : struct[i].tag = t IN
     IF i = missing \/ (struct[i].type = "Option" /\ ~optional) THEN None
     ELSE Some(CatalogText(k, i))]

\* documents of 0..MaxRecords records: the first has its optional children
\* or not and may lack one child, the later ones all have theirs or not
RecordDocs(struct) ==
  { XmlFile([k \in 1..n |->
       CatalogElement(struct, k, IF k = 1 THEN optional ELSE later,
                      IF k = 1 THEN missing ELSE 0)]) :
      n \in 0..MaxRecords, optional \in BOOLEAN, later \in BOOLEAN,
      missing \in 0..Len(struct) }

AtcOf(number, code, description) ==
  [nroatc |-> Some(number), codigoatc |-> Some(code), descatc |-> Some(description)]

AtcCodes == {<<"A">>, <<"A", "D">>}

\* what stands at the front of a description: nothing, the prefix of a
\* code, once or twice, a prefix without its last blank, or one after a blank
Fronts(code) ==
  {<< >>, Prefix(code) \o Prefix(code), <<" ">> \o Prefix(code),
   code \o <<" ", "-">>} \cup {Prefix(c) : c \in AtcCodes}

Descriptions(code) == {front \o rest : front \in Fronts(code), rest \in Texts} \ {<< >>}

\* what the number element may hold
NumberTexts ==
  { <<"1">>, <<"0", "1">>, <<"+", "1">>, <<"-", "1">>, <<"-", "0">>, <<"x">>, <<"+">>,
    to_string(I32Max), to_string(I32Max - 1) \o <<"8">>,
    to_string(I32Min), <<"-">> \o to_string(I32Max - 1) \o <<"9">> }

OneAtc == AtcOf(<<"2">>, <<"D">>, <<"D", " ", "-", " ", "D">>)

\* ATC documents whose first record holds any number, or any code and
\* description, followed or not by one more record
AtcDocs ==
  { XmlFile(<<first>> \o rest) :
      first \in {AtcOf(number, <<"A">>, <<"A", " ", "-", " ", "D">>) : number \in NumberTexts}
                \cup UNION {{AtcOf(<<"1">>, code, description) :
                               description \in Descriptions(code)} : code \in AtcCodes},
      rest \in {<< >>, <<OneAtc>>} }

CatalogDocs(name) ==
  RecordDocs(RecordOf(name)) \cup NoDocs
    \cup (IF name = "parse_atc_xml_to_csv" THEN AtcDocs ELSE {})

(***************************************************************************)
(* A call $fn_name(xml_path, csv_path) of one of the 13 instances.         *)
(***************************************************************************)
InitCatalog ==
  /\ pc = "parser" /\ work_dir = "nomenclator_data"
  /\ remote = NoFiles /\ dirExists = TRUE /\ listable = TRUE /\ disk = NoFiles
  /\ extra = FALSE /\ out = [c \in CsvFiles |-> "absent"] /\ out0 = out
  /\ InitRest
  /\ ppc = "open"
  /\ fn_name \in {parsers[j].fn_name : j \in Jobs}
  /\ xml \in CatalogDocs(fn_name)
  /\ list = [records |-> << >>]
  /\ files \in OutputsFound({mapping[JobOf(fn_name)].csv})
  /\ files0 = files
  /\ rows_per_buffer \in {1, WholeDocument}
  /\ wtrs = NoWriters(DOMAIN files)
  /\ plan = << >> /\ at = 0 /\ flushed = << >> /\ parseRet = RetNone
  /\ mut_record = << >>

\* lines 418 and 434: File::open(xml_path)?
CatalogOpen ==
  /\ ppc = "open"
  /\ IF xml.kind = "absent"
     THEN ppc' = "done" /\ parseRet' = RetErr("No such file or directory")
     ELSE ppc' = "deserialize" /\ UNCHANGED parseRet
  /\ UNCHANGED <<pipelineVars, callVars, plan, xml, list, files, files0, rows_per_buffer, wtrs,
                 at, flushed>>

\* CatalogDeserialize with the writer created before the document is read
CatalogDeserialize_CreateFirst ==
  /\ ppc = "deserialize"
  /\ LET r == from_reader_catalog(fn_name, xml) IN
     IF r.tag = "Ok"
     THEN list' = r.value /\ ppc' = "create" /\ UNCHANGED <<parseRet, files>>
     ELSE /\ ppc' = "done" /\ parseRet' = r /\ UNCHANGED list
          /\ files' = [files EXCEPT ![csv_path] = [exists |-> TRUE, rows |-> << >>]]
  /\ UNCHANGED <<pipelineVars, callVars, plan, xml, files0, rows_per_buffer, wtrs, at,
                 flushed>>

\* lines 420 and 436: from_reader(reader).context($error_ctx)?
CatalogDeserialize ==
  /\ ppc = "deserialize"
  /\ LET r == from_reader_catalog(fn_name, xml) IN
     IF r.tag = "Ok"
     THEN list' = r.value /\ ppc' = "create" /\ UNCHANGED parseRet
     ELSE ppc' = "done" /\ parseRet' = r /\ UNCHANGED list
  /\ UNCHANGED <<pipelineVars, callVars, plan, xml, files, files0, rows_per_buffer, wtrs, at,
                 flushed>>

\* lines 422 and 438: csv::Writer::from_path(csv_path)?
CatalogCreate ==
  /\ ppc = "create"
  /\ from_path(csv_path)
  /\ ppc' = IF parseRet'.tag = "Err" THEN "drop" ELSE "pass"
  /\ UNCHANGED <<pipelineVars, callVars, plan, xml, list, files0, rows_per_buffer, at, flushed>>

\* the loop of lines 423-425 and 439-442 is at a record
AtRecord == ppc = "pass" /\ at < Len(list.records)

\* lines 424 and 441, first record: serialize writes the names of the
\* fields first
CatalogHeader ==
  /\ AtRecord /\ ~wtrs[csv_path].header
  /\ mut_record' = Transformed(fn_name, list.records[at + 1])
  /\ Put(csv_path, Row("header", << >>, serialize_header(RecordOf(fn_name))), TRUE)
  /\ UNCHANGED <<pipelineVars, fn_name, plan, xml, list, files0, rows_per_buffer, flushed>>

\* lines 423-425 and 439-442: the $transform block, then wtr.serialize(record)?
CatalogSerialize ==
  /\ AtRecord /\ wtrs[csv_path].header
  /\ LET rec == Transformed(fn_name, list.records[at + 1]) IN
       /\ mut_record' = rec
       /\ Put(csv_path, Row("record", <<at + 1>>, serialize(RecordOf(fn_name), rec)), FALSE)
  /\ UNCHANGED <<pipelineVars, fn_name, plan, xml, list, files0, rows_per_buffer, flushed>>

\* lines 426 and 443: wtr.flush()?
CatalogFlush ==
  /\ ppc = "pass" /\ at = Len(list.records) /\ flushed = << >>
  /\ \E ok \in BOOLEAN :
       IF ok
       THEN /\ files' = [files EXCEPT ![csv_path] = flush_buf(@, wtrs[csv_path])]
            /\ wtrs' = [wtrs EXCEPT ![csv_path].buf = << >>]
            /\ flushed' = <<csv_path>>
            /\ UNCHANGED <<ppc, parseRet>>
       ELSE /\ ppc' = "drop" /\ parseRet' = RetErr("flush failed")
            /\ UNCHANGED <<files, wtrs, flushed>>
  /\ UNCHANGED <<pipelineVars, callVars, plan, xml, list, files0, rows_per_buffer, at>>

\* lines 428 and 445: Ok(())
CatalogReturnOk ==
  /\ ppc = "pass" /\ at = Len(list.records) /\ flushed # << >>
  /\ ppc' = "drop" /\ parseRet' = Ok("()")
  /\ UNCHANGED <<pipelineVars, callVars, plan, xml, list, files, files0, rows_per_buffer, wtrs,
                 at, flushed>>

NextCatalog ==
  \/ CatalogOpen \/ CatalogDeserialize \/ CatalogCreate \/ CatalogHeader
  \/ CatalogSerialize \/ CatalogFlush \/ CatalogReturnOk \/ Drop

CatalogSpec == InitCatalog /\ [][NextCatalog]_vars

(***************************************************************************)
(* Claims about the catalog parsers, under CatalogSpec.                    *)
(***************************************************************************)
\* the child of field i in the k-th record element of the document
Source(k, i) == xml.records[k][RecordOf(fn_name)[i].tag]

\* the document is XML of the catalog's schema: every record element has
\* its required children, and a number that is to be an i32 is one
WellFormed ==
  /\ xml.kind = "xml"
  /\ \A k \in 1..Len(xml.records) : \A i \in 1..Len(RecordOf(fn_name)) :
       CASE RecordOf(fn_name)[i].type = "Option" -> TRUE
         [] RecordOf(fn_name)[i].type = "String" -> Source(k, i) # None
         [] RecordOf(fn_name)[i].type = "i32" ->
              Source(k, i) # None /\ parse_i32(Source(k, i)[1]).tag = "Ok"

\* the call failed on the output file, not on the document
IoFailed ==
  parseRet \in {RetErr("File::create failed"), RetErr("write failed"), RetErr("flush failed")}

\* the column holds the text of the child as it is, and nothing for no child
Verbatim(column, child) == IF child = None THEN column = "" ELSE column = child[1]

\* the column is the decimal form of the integer the child denotes: the
\* same integer, no plus sign, no leading zero, no minus before a zero
Canonical(column, child) ==
  /\ parse_i32(column).tag = "Ok"
  /\ parse_i32(column).value = parse_i32(child[1]).value
  /\ column[1] # "+"
  /\ Len(column) > 1 => column[1] # "0" /\ column # <<"-", "0">>

\* what a column of the output holds, the ATC description apart; `exact`
\* asks for the text of the ATC number as it is
Holds(exact, field, column, child) ==
  CASE fn_name = "parse_atc_xml_to_csv" /\ field.name = "description" -> TRUE
    [] field.type = "i32" /\ ~exact -> Canonical(column, child)
    [] OTHER -> Verbatim(column, child)

\* the output file of a well-formed document of at least `least` records,
\* once the call is over: the call returned Ok unless the output failed,
\* and then the file is one header row of the field names in declaration
\* order, followed by one row per record element, in their order
Conversion(least, exact) ==
  WellFormed /\ Len(xml.records) >= least /\ Finished =>
    /\ parseRet.tag = "Ok" \/ IoFailed
    /\ parseRet.tag = "Ok" =>
         LET rows == files[csv_path].rows
             struct == RecordOf(fn_name)
         IN  /\ Len(rows) = 1 + Len(xml.records)
             /\ rows[1].kind = "header"
             /\ rows[1].fields = [i \in 1..Len(struct) |-> struct[i].name]
             /\ \A k \in 1..Len(xml.records) :
                  /\ rows[k + 1].kind = "record"
                  /\ Len(rows[k + 1].fields) = Len(struct)
                  /\ \A i \in 1..Len(struct) :
                       Holds(exact, struct[i], rows[k + 1].fields[i], Source(k, i))

Cleaned(code, description, cleaned) ==
  LET front == code \o <<" ", "-", " ">> IN
  IF Len(description) >= Len(front) /\ SubSeq(description, 1, Len(front)) = front
  THEN description = front \o cleaned
  ELSE cleaned = description

\* C19: every record the loop of parse_atc_xml_to_csv takes from the list
\* leaves the transform with the number and the code it had and with its
\* description cleaned; and every row of the output holds the number and
\* the code of the record it was written for, and the cleaned description
\* of its element in the document.
C19_AtcCleaning ==
  /\ [][fn_name = "parse_atc_xml_to_csv" /\ AtRecord =>
          /\ mut_record'.number = list.records[at + 1].number
          /\ mut_record'.code = list.records[at + 1].code
          /\ Cleaned(list.records[at + 1].code, list.records[at + 1].description,
                     mut_record'.description)]_vars
  /\ [](fn_name = "parse_atc_xml_to_csv" =>
          \A x \in 1..Len(Written(csv_path)) :
            LET row == Written(csv_path)[x]
                k == row.src[1]
            IN  /\ row.fields[1] = to_string(list.records[k].number)
                /\ row.fields[2] = xml.records[k].codigoatc[1]
                /\ Cleaned(xml.records[k].codigoatc[1], xml.records[k].descatc[1],
                           row.fields[3]))

\* a description that starts with the prefix twice has lost it once in the
\* output, and the record after it, which starts with it once, has none left
C19_Witness ==
  /\ Succeeded /\ fn_name = "parse_atc_xml_to_csv" /\ Len(xml.records) = 2
  /\ xml.records[1].codigoatc = Some(<<"A">>)
  /\ xml.records[1].descatc = Some(<<"A", " ", "-", " ", "A", " ", "-", " ", "D">>)
  /\ files[csv_path].rows[2].fields = <<<<"1">>, <<"A">>, <<"A", " ", "-", " ", "D">>>>
  /\ files[csv_path].rows[3].fields = <<<<"2">>, <<"D">>, <<"D">>>>

\* the number of fields of a row of each child table
ChildColumns ==
  [p \in ChildTables |->
     CASE p = wtr_forms -> 4
       [] p = wtr_ingredients -> 11
       [] p = wtr_routes -> 2
       [] p = wtr_atc -> 2
       [] p = wtr_atc_duplicates -> 6
       [] p = wtr_supply -> 3]

\* the columns of `row` from `offset` on hold the children of `element` that
\* the struct declares, an optional child that is absent as the empty string
ChildrenIn(row, offset, struct, element) ==
  \A c \in 1..Len(struct) :
    row.fields[offset + c] =
      IF element[struct[c].tag] = None THEN "" ELSE element[struct[c].tag][1]

\* the element of the document a row of the child table p was written for
ElementOf(p, src) ==
  LET e == xml.records[src[1]] IN
  CASE p = wtr_forms -> e.formasfarmaceuticas[1].fields
    [] p = wtr_ingredients -> e.formasfarmaceuticas[1].composicion_pa[src[2]]
    [] p = wtr_routes -> e.formasfarmaceuticas[1].viasadministracion[src[2]]
    [] p = wtr_atc -> e.atc[src[2]].fields
    [] p = wtr_atc_duplicates -> e.atc[src[2]].duplicidades[src[3]]
    [] p = wtr_supply -> e.problemassuministro[src[2]]

StructOf(p) ==
  CASE p = wtr_forms -> PrescriptionForm
    [] p = wtr_ingredients -> ActiveIngredient
    [] p = wtr_routes -> AdminRoute
    [] p = wtr_atc -> PrescriptionAtc
    [] p = wtr_atc_duplicates -> AtcDuplicate
    [] p = wtr_supply -> SupplyProblem

\* C21: every row written to a child table has the number of fields of its
\* table (forms 4, ingredients 11, routes 2, ATC 2, duplicates 6, supply 3),
\* whatever optional children its element lacks; after the key columns it
\* holds the children of the element in declaration order, and the empty
\* string for each optional child that is absent.
C21_StableColumns ==
  \A p \in ChildTables : \A x \in 1..Len(Written(p)) :
    LET row == Written(p)[x] IN
      /\ Len(row.fields) = ChildColumns[p]
      /\ ChildrenIn(row, ChildColumns[p] - Len(StructOf(p)), StructOf(p),
                    ElementOf(p, row.src))

\* the supply table holds a row of a problem with both optional children
\* and a row of a problem with neither, and the ingredients table a row of
\* an ingredient with none of its ten
C21_Witness ==
  /\ Succeeded
  /\ \E x, y \in 1..Len(Records(wtr_supply)) :
       /\ Records(wtr_supply)[x].fields[2] # "" /\ Records(wtr_supply)[x].fields[3] # ""
       /\ Records(wtr_supply)[y].fields[2] = "" /\ Records(wtr_supply)[y].fields[3] = ""
  /\ \E x \in 1..Len(Records(wtr_ingredients)) :
       \A c \in 2..11 : Records(wtr_ingredients)[x].fields[c] = ""

\* everything the writer of a catalog has taken so far, the header included
Taken == files[csv_path].rows \o wtrs[csv_path].buf

\* C22: every row parse_laboratorio_xml_to_csv writes, the header included,
\* has 6 fields; in the row of a record each of address, zip, city and vat
\* (columns 3 to 6) holds the text of its element, or the empty string
\* when the record has no such element.
C22_LaboratoryOptionals ==
  fn_name = "parse_laboratorio_xml_to_csv" =>
    \A x \in 1..Len(Taken) :
      Taken[x].kind # "old" =>
        /\ Len(Taken[x].fields) = 6
        /\ Taken[x].kind = "record" =>
             \A i \in 3..6 :
               Taken[x].fields[i] =
                 IF Source(Taken[x].src[1], i) = None THEN ""
                 ELSE Source(Taken[x].src[1], i)[1]

\* the laboratory file of a document whose first record lacks only its zip
\* and whose second record has no optional element at all
C22_Witness ==
  /\ Succeeded /\ fn_name = "parse_laboratorio_xml_to_csv"
  /\ Len(files[csv_path].rows) = 3
  /\ \A i \in {3, 5, 6} : files[csv_path].rows[2].fields[i] # ""
  /\ files[csv_path].rows[2].fields[4] = ""
  /\ \A i \in 3..6 : files[csv_path].rows[3].fields[i] = ""

(***************************************************************************)
(* Output paths of one run (Spec).                                         *)
(***************************************************************************)
\* the catalog jobs whose parser holds, or is about to open, its csv::Writer
AtWork == {j \in Jobs : task[j] = "blocking"}

\* the paths a catalog parser at work writes to
OpenPaths(S) == {mapping[j].csv : j \in S}

PrescriptionPaths == {PrescriptionCsvs[i] : i \in 1..Len(PrescriptionCsvs)}

\* C23: the 13 catalog jobs write 13 pairwise distinct CSV paths, none of
\* them is one of the 7 paths of the prescription step, and at no moment of a
\* run are two writers at work on one path: the catalog parsers at work have
\* pairwise distinct paths, and the prescription step runs when no catalog
\* parser is at work.
C23_DisjointOutputs ==
  /\ Len(mapping) = 13 /\ Len(PrescriptionCsvs) = 7
  /\ Cardinality(OpenPaths(Jobs)) = 13
  /\ Cardinality(PrescriptionPaths) = 7
  /\ OpenPaths(Jobs) \cap PrescriptionPaths = {}
  /\ \A j, k \in AtWork : j # k => mapping[j].csv # mapping[k].csv
  /\ pc \in {"prescription", "report", "done"} => AtWork = {}

\* two catalog parsers are at work at once
C23_Witness ==
  /\ Cardinality(AtWork) >= 2
  /\ Cardinality(OpenPaths(AtWork)) = Cardinality(AtWork)

(***************************************************************************)
(* A write that fails in the middle of the pass (PrescriptionSpec).        *)
(***************************************************************************)
\* a write of the pass has failed: the `?` of one of lines 597-655
WriteFailed == parseRet = RetErr("write failed")

\* the rows of the writes made before the one that failed, for the writer p
Made(p) ==
  LET done == SelectSeq(SubSeq(plan, 1, at), LAMBDA w : w.wtr = p)
  IN  [k \in 1..Len(done) |-> done[k].row]

IsPrefixOf(s, t) == Len(s) <= Len(t) /\ SubSeq(t, 1, Len(s)) = s

Nested == {"forms", "atc_codes", "supply_problems"}

\* the rows of the main table, the header among them, in the file or still
\* in the buffer
MainRows == files[wtr_main].rows \o wtrs[wtr_main].buf

\* C25: the row of the main table for a record holds its scalar fields and
\* nothing else: one column for each of the 42 scalar fields, in declaration
\* order, each the text of that field; no column is named after a nested
\* field; and the columns are the same for every record, whether or not it
\* has a form, ATC assignments or supply problems.
C25_MainScalarsOnly ==
  /\ Len(PrescriptionRecord) = 42
  /\ \A k \in 1..Len(PrescriptionRecord) : PrescriptionRecord[k].name \notin Nested
  /\ \A x \in 1..Len(MainRows) :
       LET row == MainRows[x] IN
       /\ row.kind = "header" =>
            row.fields = [k \in 1..Len(PrescriptionRecord) |-> PrescriptionRecord[k].name]
       /\ row.kind = "record" =>
            LET record == list.records[row.src[1]] IN
            /\ Len(row.fields) = Len(PrescriptionRecord)
            /\ \A k \in 1..Len(PrescriptionRecord) :
                 row.fields[k] = csv_field(PrescriptionRecord[k].type,
                                           record[PrescriptionRecord[k].name])

\* a record with a form, ATC assignments and supply problems and a record
\* with none of them have their rows in the main file, under the header
C25_Witness ==
  /\ Succeeded
  /\ Len(list.records) = 2
  /\ list.records[1].forms # None
  /\ Len(list.records[1].atc_codes) > 0 /\ Len(list.records[1].supply_problems) > 0
  /\ list.records[2].forms = None
  /\ list.records[2].atc_codes = << >> /\ list.records[2].supply_problems = << >>
  /\ Len(files[wtr_main].rows) = 3
  /\ files[wtr_main].rows[1].kind = "header"
  /\ Len(files[wtr_main].rows[2].fields) = Len(files[wtr_main].rows[3].fields)

(***************************************************************************)
(* Termination (LiveSpec).  process_csv is one task of the runtime: the    *)
(* dispatch stream, the futures in its buffer and the steps after it are   *)
(* polled by that task, which runs whenever it can take a step.  Each      *)
(* parser runs on a thread of the blocking pool of its own.                *)
(***************************************************************************)
ProcessCsv ==
  \/ Start
  \/ CallFetch
  \/ FetchCheck \/ FetchCreateDir \/ FetchGet \/ FetchOpen \/ FetchExtract
  \/ AfterFetch
  \/ \E j \in Jobs : Pull(j)
  \/ \E j \in Jobs : FirstPoll(j)
  \/ \E j \in Jobs : PollJoin(j)
  \/ DispatchDone
  \/ PrescriptionStep
  \/ Report

Fairness == WF_vars(ProcessCsv) /\ \A j \in Jobs : WF_vars(ParserRun(j))

LiveSpec == Init /\ [][Next]_vars /\ Fairness

\* the fetch has returned Ok and the catalog jobs are being dispatched
Dispatching == pc = "dispatch"

\* C26: for every concurrency level, 0 included, once the fetch has
\* succeeded every catalog job eventually reaches a terminal state and the
\* run eventually prints the final report.
C26_Termination ==
  /\ Dispatching ~> AllTerminal
  /\ Dispatching ~> Printed

\* the same for a concurrency level of at least 1
C26_PositiveLevels ==
  /\ (Dispatching /\ concurrency >= 1) ~> AllTerminal
  /\ (Dispatching /\ concurrency >= 1) ~> Printed

\* at level 0 the dispatch stays where it began: nothing is pulled from the
\* stream, the buffer is empty and collect() does not return
C26_Stuck ==
  Dispatching /\ concurrency = 0 => next = 1 /\ InBuffer = {} /\ ~Collected /\ ~ENABLED Next

(***************************************************************************)
(* A call of the fetcher after one that failed (FetchSpec).  The calls of  *)
(* one behaviour are on one directory, work_dir.                           *)
(***************************************************************************)
\* the call took the short-circuit of lines 15-21: Ok with no request
ShortCircuited(r) == r.ret.tag = "Ok" /\ r.requests = 0

\* the call went on to download: it sent the GET, unless the directory it
\* had to create first could not be created
Downloaded(r) ==
  r.requests = 1 \/ r.ret = RetErr("Failed to create target directory")

\* C27: after a call has returned an error, a later call on the same
\* directory is not short-circuited as already-fetched: it performs the
\* download again.
C27_FailedFetchRetried ==
  \A k, l \in 1..Len(rets) :
    k < l /\ rets[k].ret.tag = "Err" => ~ShortCircuited(rets[l]) /\ Downloaded(rets[l])

\* a call that failed and left the directory without an entry is followed
\* by a call that downloads
C27_RetriedWhenEmpty ==
  \A k \in 1..Len(rets) :
    k + 1 <= Len(rets) /\ rets[k].ret.tag = "Err" /\ ~rets[k + 1].populated
      => Downloaded(rets[k + 1])

(***************************************************************************)
(* What a run leaves is decided by its input files alone (Spec).           *)
(***************************************************************************)
\* the terminal state of a catalog job, from what its source file is
TerminalOf(kind) ==
  CASE kind = "absent" -> "Skipped"
    [] kind = "good" -> "Succeeded"
    [] OTHER -> "Failed"

\* what the job of a source file of that kind leaves at its CSV path, where
\* `before` is what the run found there
LeftBy(kind, before) ==
  IF kind = "absent" THEN {before} ELSE {r.csv : r \in parser_fn(kind, before)}

\* C28: for fixed input files the terminal state of each catalog job, and
\* the CSV file it leaves, are decided by its own source file, and so are
\* the same for every concurrency level K >= 1 and for every interleaving
\* and order of completion: a job that has reached a terminal state is in
\* the one its source file gives, and has left at its path what a parser
\* run alone on that file leaves; a job that has not run has left its path
\* as the run found it.
C28_ScheduleIndependence ==
  /\ \A j \in Jobs :
       /\ jobState[j] \in Terminal =>
            /\ concurrency >= 1
            /\ jobState[j] = TerminalOf(disk[mapping[j].xml])
            /\ out[mapping[j].csv] \in LeftBy(disk[mapping[j].xml], out0[mapping[j].csv])
       /\ task[j] \in {"none", "unpolled", "blocking"} =>
            out[mapping[j].csv] = out0[mapping[j].csv]
  /\ Printed =>
       /\ AllTerminal
       /\ summary.failed =
            Cardinality({j \in Jobs : TerminalOf(disk[mapping[j].xml]) = "Failed"})

\* at level 2 the second job has succeeded while the first, pulled before
\* it, is still parsing: the jobs complete in an order that is not the
\* order of the table
C28_Witness ==
  /\ concurrency = 2
  /\ task[1] = "blocking" /\ jobState[2] = "Succeeded"
  /\ disk[mapping[1].xml] # "good"

(***************************************************************************)
(* A catalog parser reads its whole document before it creates its file    *)
(* (CatalogSpec).                                                          *)
(***************************************************************************)
\* the call ended with the error of File::open or of from_reader
ReadFailed == Finished /\ parseRet.tag = "Err" /\ ~IoFailed

\* C29: a catalog parser that fails to open or to deserialize its XML file
\* returns an error without creating or truncating its CSV file: until the
\* document is deserialized no writer is open and the CSV path is as the
\* call found it; a file that does not open, or a document that is not
\* well-formed for the record type, ends the call there with an error; and
\* after a call that ended so (the file was absent, not well-formed, or held
\* no record, which the list type does not accept) the CSV of an earlier run
\* is unchanged.
C29_CatalogParseBeforeWrite ==
  /\ [](ppc \in {"open", "deserialize"} =>
          files = files0 /\ \A p \in DOMAIN wtrs : ~wtrs[p].open)
  /\ [][ppc = "open" /\ xml.kind = "absent" =>
          Finished' /\ parseRet'.tag = "Err" /\ files' = files]_vars
  /\ [][ppc = "deserialize" /\ ~WellFormed =>
          Finished' /\ parseRet'.tag = "Err" /\ files' = files]_vars
  /\ [](ReadFailed =>
          /\ files = files0 /\ at = 0
          /\ (xml.kind = "absent" \/ ~WellFormed \/ xml.records = << >>))

\* a document that does not deserialize, where an earlier run had left a CSV
\* file: the call has returned an error and the file holds what it held
C29_Witness ==
  /\ ReadFailed /\ xml.kind = "xml" /\ Len(xml.records) > 0
  /\ files0[csv_path].exists /\ files0[csv_path].rows = <<OldRow>>
  /\ files[csv_path] = files0[csv_path]

(***************************************************************************)
(* A run without Prescripcion.xml (Spec).                                  *)
(***************************************************************************)
NoPrescription == disk[PrescriptionXml] = "absent"

\* C30: when Prescripcion.xml does not exist the prescription step calls no
\* parser, leaves the 7 prescription paths as the run found them and yields
\* Ok; the report then shows the prescription step as a success and the run
\* returns an error exactly when a catalog job failed; a run in which all 14
\* source files are absent calls no parser at all and returns Ok.
C30_AbsentPrescription ==
  /\ [][pc = "prescription" /\ NoPrescription =>
          /\ prescription_result' = "Ok"
          /\ parserCalls' = parserCalls /\ out' = out]_vars
  /\ [](Printed /\ NoPrescription =>
          /\ PrescriptionXml \notin parserCalls
          /\ \A c \in PrescriptionPaths : out[c] = out0[c]
          /\ summary.prescription_success
          /\ (outcome = "Err") = (\E j \in Jobs : jobState[j] = "Failed")
          /\ (outcome = "Ok") = (\A j \in Jobs : jobState[j] \in {"Succeeded", "Skipped"}))
  /\ [](Printed /\ (\A f \in XmlFiles : disk[f] = "absent") =>
          outcome = "Ok" /\ parserCalls = {} /\ out = out0)

\* the run has ended with every one of the 14 source files absent: every
\* catalog job was skipped, the prescription step did nothing, and the run
\* returned Ok
C30_Witness ==
  /\ Printed /\ outcome = "Ok"
  /\ \A f \in XmlFiles : disk[f] = "absent"
  /\ \A j \in Jobs : jobState[j] = "Skipped"
  /\ prescription_result = "Ok" /\ parserCalls = {}

====
